---- MODULE Spec2Model ----
(***************************************************************************)
(* Keyboard layout emulation: the translation algebra (LayoutTranslation)  *)
(* and the remap engine (plan / apply / revert over the host's keymap      *)
(* items, reconciled through the journal of remapped keys).                *)
(*                                                                         *)
(* Python dicts are insertion ordered; a dict is modelled as a sequence of *)
(* <<key, value>> pairs with distinct keys.  Optional values are sequences *)
(* of length 0 (None) or 1.  A Python str built by concatenation is a      *)
(* sequence of its pieces.                                                 *)
(***************************************************************************)
EXTENDS Integers, Sequences, FiniteSets, TLC

VARIABLES
    \* ---- host state (bpy): the user keyconfig
    user_keymaps,
    \* ---- add-on preferences (KLEPreferences)
    remapped_keys_json,
    custom_layouts_json,
    hidden__preferred_input_layout,
    hidden__preferred_target_layout,
    is_emulation_active,
    allow_key_conflicts_in_input_layout,
    \* ---- observation of the engine's operations
    last,
    hist,
    \* ---- translation algebra harness
    alg_in_out,
    alg_out_in,
    alg_op,
    alg_t,
    alg_res,
    alg_x,
    alg_y,
    alg_z,
    \* ---- calls of pure functions on drawn inputs
    call_op,
    call_args,
    call_res,
    call_done,
    \* ---- reapply on reload: two preferences and the host's pending timers
    reapply_on_reload,
    reapply_on_reload_delay,
    timers,
    \* ---- add-on change detection: a preference, the host's active add-ons
    \* and the globals of ui.py
    detect_addon_changes,
    addons,
    last_active_addons_set,
    addon_check_scheduled,
    drawn_since_poll,
    \* ---- reapply from the keymap panel: a preference, the global of ui.py,
    \* the host's pending timers of reapply_from_keymap_prefs, and whether
    \* one of them has run
    reapply_on_keymaps_panel,
    keymap_prefs_reapply_requested,
    panel_timers,
    panel_ran

vars == <<user_keymaps, remapped_keys_json, custom_layouts_json,
          hidden__preferred_input_layout, hidden__preferred_target_layout,
          is_emulation_active, allow_key_conflicts_in_input_layout,
          last, hist,
          alg_in_out, alg_out_in, alg_op, alg_t, alg_res, alg_x, alg_y, alg_z,
          call_op, call_args, call_res, call_done,
          reapply_on_reload, reapply_on_reload_delay, timers,
          detect_addon_changes, addons, last_active_addons_set,
          addon_check_scheduled, drawn_since_poll,
          reapply_on_keymaps_panel, keymap_prefs_reapply_requested,
          panel_timers, panel_ran>>

engine_vars == <<user_keymaps, remapped_keys_json, custom_layouts_json,
                 hidden__preferred_input_layout, hidden__preferred_target_layout,
                 is_emulation_active, allow_key_conflicts_in_input_layout,
                 last, hist>>

alg_vars == <<alg_in_out, alg_out_in, alg_op, alg_t, alg_res, alg_x, alg_y, alg_z>>

call_vars == <<call_op, call_args, call_res, call_done>>

reload_vars == <<reapply_on_reload, reapply_on_reload_delay, timers>>

addon_vars == <<detect_addon_changes, addons, last_active_addons_set,
                addon_check_scheduled, drawn_since_poll>>

panel_vars == <<reapply_on_keymaps_panel, keymap_prefs_reapply_requested,
                panel_timers, panel_ran>>

----------------------------------------------------------------------------
\* Bounds of the model

\* largest number of timers pending at once
MaxTimers == 4

\* largest number of entries of a forward / backward map drawn as an input
MaxEntries == 2
\* largest number of keymap items the host holds over all keymaps
MaxBindings == 2
\* the count of apply mutations of one keymap item saturates here
MaxApplied == 2
\* an apply pass starts only while the journal holds fewer entries than this
MaxJournal == 3
\* largest number of journal candidates handed to resolve_remapped_keymap_item
MaxCandidates == 3

----------------------------------------------------------------------------
\* Python dict (insertion ordered) and Optional

None == <<>>
Some(v) == <<v>>

DictKeys(d) == {d[i][1] : i \in DOMAIN d}
DictHas(d, k) == \E i \in DOMAIN d : d[i][1] = k
DictGet(d, k, default) ==
    IF DictHas(d, k) THEN d[CHOOSE i \in DOMAIN d : d[i][1] = k][2] ELSE default
\* d[k] = v : an existing key keeps its position, a new key is appended
DictSet(d, k, v) ==
    IF DictHas(d, k)
    THEN [i \in DOMAIN d |-> IF d[i][1] = k THEN <<k, v>> ELSE d[i]]
    ELSE Append(d, <<k, v>>)
RECURSIVE DictUpdate(_, _)
DictUpdate(d, e) ==
    IF e = <<>> THEN d ELSE DictUpdate(DictSet(d, e[1][1], e[1][2]), Tail(e))
\* dict equality in Python ignores insertion order
DictItems(d) == {<<d[i][1], d[i][2]>> : i \in DOMAIN d}
DictEq(d, e) == DictItems(d) = DictItems(e)
IsDict(d) == \A i, j \in DOMAIN d : d[i][1] = d[j][1] => i = j

----------------------------------------------------------------------------
\* keyboard_layout.py
\* (the grave accent character cannot be written in a TLA+ string: it is "GRAVE")

us_qwerty_physical_remappable_keys ==
    {"A", "B", "C", "D", "E", "F", "G", "H", "I", "J", "K", "L", "M",
     "N", "O", "P", "Q", "R", "S", "T", "U", "V", "W", "X", "Y", "Z",
     "0", "1", "2", "3", "4", "5", "6", "7", "8", "9",
     "GRAVE", "-", "=", "[", "]", ";", "'", ",", ".", "/", "\\"}

event_type_to_char_dict ==
    << <<"A", "A">>, <<"B", "B">>, <<"C", "C">>, <<"D", "D">>, <<"E", "E">>,
       <<"F", "F">>, <<"G", "G">>, <<"H", "H">>, <<"I", "I">>, <<"J", "J">>,
       <<"K", "K">>, <<"L", "L">>, <<"M", "M">>, <<"N", "N">>, <<"O", "O">>,
       <<"P", "P">>, <<"Q", "Q">>, <<"R", "R">>, <<"S", "S">>, <<"T", "T">>,
       <<"U", "U">>, <<"V", "V">>, <<"W", "W">>, <<"X", "X">>, <<"Y", "Y">>,
       <<"Z", "Z">>,
       <<"ZERO", "0">>, <<"ONE", "1">>, <<"TWO", "2">>, <<"THREE", "3">>,
       <<"FOUR", "4">>, <<"FIVE", "5">>, <<"SIX", "6">>, <<"SEVEN", "7">>,
       <<"EIGHT", "8">>, <<"NINE", "9">>,
       <<"GRLESS", "<">>, <<"SEMI_COLON", ";">>, <<"PERIOD", ".">>,
       <<"COMMA", ",">>, <<"QUOTE", "\"">>, <<"ACCENT_GRAVE", "GRAVE">>,
       <<"MINUS", "-">>, <<"PLUS", "+">>, <<"SLASH", "/">>,
       <<"BACK_SLASH", "\\">>, <<"EQUAL", "=">>, <<"LEFT_BRACKET", "[">>,
       <<"RIGHT_BRACKET", "]">> >>

char_to_keymap_type_dict ==
    [i \in DOMAIN event_type_to_char_dict |->
        <<event_type_to_char_dict[i][2], event_type_to_char_dict[i][1]>>]

event_type_to_char(event_type) == DictGet(event_type_to_char_dict, event_type, event_type)
char_to_event_type(char) == DictGet(char_to_keymap_type_dict, char, char)

\* the default of the out_in_dict parameter (the Ellipsis object)
Ellipsis == << <<"...", "...">> >>

StripIdentity(d) == SelectSeq(d, LAMBDA p : p[1] # p[2])

\* (mutant) the collision test `v in out_in` is lost: the last writer wins
\* and the collision is not recorded
RECURSIVE ForwardOnlyLoop_LastWriterWins(_, _, _, _)
ForwardOnlyLoop_LastWriterWins(items, non_remapped_keys, out_in, conflicting_keys) ==
    IF items = <<>>
    THEN [out_in |-> out_in, conflicting_keys |-> conflicting_keys]
    ELSE LET k == items[1][1]
             v == items[1][2]
         IN  IF v \in non_remapped_keys
             THEN ForwardOnlyLoop_LastWriterWins(Tail(items), non_remapped_keys,
                                  out_in, conflicting_keys \cup {v})
             ELSE ForwardOnlyLoop_LastWriterWins(Tail(items), non_remapped_keys,
                                  DictSet(out_in, v, k), conflicting_keys)

\* forward only: first writer wins, collisions go to conflicting_keys
RECURSIVE ForwardOnlyLoop(_, _, _, _)
ForwardOnlyLoop(items, non_remapped_keys, out_in, conflicting_keys) ==
    IF items = <<>>
    THEN [out_in |-> out_in, conflicting_keys |-> conflicting_keys]
    ELSE LET k == items[1][1]
             v == items[1][2]
         IN  IF DictHas(out_in, v) \/ v \in non_remapped_keys
             THEN ForwardOnlyLoop(Tail(items), non_remapped_keys, out_in,
                                  conflicting_keys \cup {v})
             ELSE ForwardOnlyLoop(Tail(items), non_remapped_keys,
                                  DictSet(out_in, v, k), conflicting_keys)

\* (mutant) the cross validation reads the forward entries only: a backward
\* entry without its forward counterpart is not recorded
CrossConflicts_ForwardEntriesOnly(in_out, out_in) ==
    {p[1] : p \in {q \in DictItems(in_out) :
                      ~DictHas(out_in, q[2]) \/ DictGet(out_in, q[2], q[2]) # q[1]}}

\* forward and backward: cross validation, both sides kept
CrossConflicts(in_out, out_in) ==
    {p[1] : p \in {q \in DictItems(in_out) :
                      ~DictHas(out_in, q[2]) \/ DictGet(out_in, q[2], q[2]) # q[1]}}
    \cup
    {p[2] : p \in {q \in DictItems(out_in) :
                      ~DictHas(in_out, q[2]) \/ DictGet(in_out, q[2], q[2]) # q[1]}}

LayoutTranslation(in_out_dict, out_in_dict) ==
    LET in_out == StripIdentity(in_out_dict) IN
    IF out_in_dict = Ellipsis
    THEN LET non_remapped_keys ==
                 {k \in us_qwerty_physical_remappable_keys : ~DictHas(in_out, k)}
             r == ForwardOnlyLoop(in_out, non_remapped_keys, <<>>, {})
         IN  [in_out |-> in_out, out_in |-> r.out_in,
              conflicting_keys |-> r.conflicting_keys]
    ELSE LET out_in == StripIdentity(out_in_dict)
         IN  [in_out |-> in_out, out_in |-> out_in,
              conflicting_keys |-> CrossConflicts(in_out, out_in)]

identity == LayoutTranslation(<<>>, <<>>)
from_dict(in_out, out_in) == LayoutTranslation(in_out, out_in)
inverse(layout) == LayoutTranslation(layout.out_in, layout.in_out)

\* (mutant) the update does not look the image up in the accumulated map:
\* in_out.update(layout.in_out)
RECURSIVE ComposeFold_NoLookup(_, _, _)
ComposeFold_NoLookup(acc, layouts, side) ==
    IF layouts = <<>> THEN acc
    ELSE LET m == IF side = "in_out" THEN layouts[1].in_out ELSE layouts[1].out_in
         IN  ComposeFold_NoLookup(DictUpdate(acc, m), Tail(layouts), side)

\* in_out.update({i: in_out.get(o, o) for i, o in layout.in_out.items()}),
\* folded over reversed(layouts[:-1]); the comprehension reads in_out before
\* the update writes it
RECURSIVE ComposeFold(_, _, _)
ComposeFold(acc, layouts, side) ==
    IF layouts = <<>> THEN acc
    ELSE LET m == IF side = "in_out" THEN layouts[1].in_out ELSE layouts[1].out_in
             upd == [i \in DOMAIN m |-> <<m[i][1], DictGet(acc, m[i][2], m[i][2])>>]
         IN  ComposeFold(DictUpdate(acc, upd), Tail(layouts), side)

Reversed(s) == [i \in DOMAIN s |-> s[Len(s) + 1 - i]]

\* (mutant) the backward map is not passed on: it is rebuilt from the forward map
compose_DropsBackward(layouts) ==
    IF layouts = <<>> THEN identity
    ELSE LayoutTranslation(layouts[Len(layouts)].in_out, Ellipsis)

compose(layouts) ==
    IF layouts = <<>> THEN identity
    ELSE LET in_out == ComposeFold(layouts[Len(layouts)].in_out,
                                   Reversed(SubSeq(layouts, 1, Len(layouts) - 1)),
                                   "in_out")
             out_in == ComposeFold(layouts[1].out_in, Tail(layouts), "out_in")
         IN  LayoutTranslation(in_out, out_in)

from_input_to_target(input_translation, target_translation) ==
    compose(<<input_translation, inverse(target_translation)>>)

\* `for i, o in in_out.items(): if o not in out_in: out_in[o] = i` of update
RECURSIVE UpdateBackward(_, _)
UpdateBackward(items, out_in) ==
    IF items = <<>> THEN out_in
    ELSE UpdateBackward(Tail(items),
                        IF DictHas(out_in, items[1][2]) THEN out_in
                        ELSE DictSet(out_in, items[1][2], items[1][1]))

\* LayoutTranslation.update(in_out[, out_in]): the entries override, they
\* are not composed
update(self, in_out, out_in) ==
    LET new_in_out == DictUpdate(self.in_out, in_out)
        delta == IF out_in = Ellipsis THEN UpdateBackward(in_out, <<>>) ELSE out_in
        new_out_in == DictUpdate(self.out_in, delta)
    IN  LayoutTranslation(new_in_out, new_out_in)

remapped_input_characters(t) == DictKeys(t.in_out)
remapped_output_characters(t) == DictKeys(t.out_in)
map_input_to_output(t, key) == DictGet(t.in_out, key, key)
map_output_to_input(t, key) == DictGet(t.out_in, key, key)
map_input_type_to_output_type(t, event_type) ==
    char_to_event_type(map_input_to_output(t, event_type_to_char(event_type)))
map_output_type_to_input_type(t, event_type) ==
    char_to_event_type(map_output_to_input(t, event_type_to_char(event_type)))
conflicting_keys(t) == t.conflicting_keys
is_valid(t) == t.conflicting_keys = {}
is_identity(t) == t.in_out = <<>> /\ t.out_in = <<>>

\* from_qwerty_string_mapping on the two strings with the spaces removed,
\* given as sequences of characters
from_qwerty_string_mapping(qwerty, replace) ==
    LET n == IF Len(qwerty) < Len(replace) THEN Len(qwerty) ELSE Len(replace)
        pairs == [i \in 1..n |-> <<qwerty[i], replace[i]>>]
    IN  LayoutTranslation(DictUpdate(<<>>, pairs), Ellipsis)

QWERTY == identity
\* (mutant) AZERTY with `.` remapped as `:`, which the source leaves out
AZERTY_RemapsPeriod == from_qwerty_string_mapping(
    <<"Q", "A", "W", "Z", ";", "M", ",", ".">>,
    <<"A", "Q", "Z", "W", "M", ",", ";", ":">>)

AZERTY == from_qwerty_string_mapping(
    <<"Q", "A", "W", "Z", ";", "M", ",">>,
    <<"A", "Q", "Z", "W", "M", ",", ";">>)
QWERTZ == from_qwerty_string_mapping(<<"Y", "Z">>, <<"Z", "Y">>)

dvorak == from_qwerty_string_mapping(
    <<"-", "=", "Q", "W", "E", "R", "T", "Y", "U", "I", "O", "P", "[", "]",
      "\\", "A", "S", "D", "F", "G", "H", "J", "K", "L", ";", "\"", "Z",
      "X", "C", "V", "B", "N", "M", ",", ".", "/">>,
    <<"[", "]", "\"", ",", ".", "P", "Y", "F", "G", "C", "R", "L", "/",
      "=", "\\", "A", "O", "E", "U", "I", "D", "H", "T", "N", "S", "-",
      ";", "Q", "J", "K", "X", "B", "M", "W", "V", "Z">>)
colemak == from_qwerty_string_mapping(
    <<"Q", "W", "E", "R", "T", "Y", "U", "I", "O", "P", "[", "]", "\\",
      "A", "S", "D", "F", "G", "H", "J", "K", "L", ";", "'", "Z", "X", "C",
      "V", "B", "N", "M", ",", ".", "/">>,
    <<"Q", "W", "F", "P", "G", "J", "L", "U", "Y", ";", "[", "]", "\\",
      "A", "R", "S", "T", "D", "H", "N", "E", "I", "O", "'", "Z", "X", "C",
      "V", "B", "K", "M", ",", ".", "/">>)

\* LayoutTranslation.built_in and its keys
built_in_names == {"QWERTY", "AZERTY", "QWERTZ", "Dvorak", "Colemak"}
built_in ==
    << <<"QWERTY", QWERTY>>, <<"AZERTY", AZERTY>>, <<"QWERTZ", QWERTZ>>,
       <<"Dvorak", dvorak>>, <<"Colemak", colemak>> >>
is_built_in_layout(layout_name) == layout_name \in built_in_names

----------------------------------------------------------------------------
\* JSON values (the persisted preferences) and Python values of operator
\* properties, as tagged records

JNull == [t |-> "null"]
JStr(x) == [t |-> "str", v |-> x]
JBool(b) == [t |-> "bool", v |-> b]
JInt(n) == [t |-> "int", v |-> n]
JList(l) == [t |-> "list", v |-> l]
JObj(d) == [t |-> "dict", v |-> d]

\* the text of a StringProperty: "" or the text of a JSON value
EmptyText == [kind |-> "empty"]
JsonText(value) == [kind |-> "json", value |-> value]
\* a text that json.loads rejects (it raises json.JSONDecodeError)
MalformedText == [kind |-> "malformed"]
\* the outcome of a getter: it raised, or it returned value
Raised == [raised |-> TRUE, value |-> <<>>]
Returned(value) == [raised |-> FALSE, value |-> value]

\* bool(v)
Truthy(x) ==
    CASE x.t = "null" -> FALSE
      [] x.t = "str" -> x.v # ""
      [] x.t = "bool" -> x.v
      [] x.t = "int" -> x.v # 0
      [] OTHER -> x.v # <<>>

\* a == b on property values (dicts compare without their insertion order)
RECURSIVE PyEq(_, _)
PyEq(a, b) ==
    IF a.t # b.t THEN FALSE
    ELSE IF a.t = "null" THEN TRUE
    ELSE IF a.t = "dict"
         THEN /\ DictKeys(a.v) = DictKeys(b.v)
              /\ \A k \in DictKeys(a.v) :
                    PyEq(DictGet(a.v, k, JNull), DictGet(b.v, k, JNull))
    ELSE IF a.t = "list"
         THEN /\ Len(a.v) = Len(b.v)
              /\ \A i \in DOMAIN a.v : PyEq(a.v[i], b.v[i])
    ELSE a.v = b.v

----------------------------------------------------------------------------
\* preferences.py: keymap items, fingerprints, diffs, classifier, reconciler

\* keymap_id(km): the formatted string, as the sequence of its pieces
keymap_id(km) ==
    (IF km.is_modal THEN <<"modal:">> ELSE <<>>)
        \o <<km.space_type, ".", km.region_type, ":", km.name>>

\* (mutant) the trigger mode is not tested
is_remappable_keymap_item_AnyValue(kmi, layout_translation) ==
    IF kmi.map_type # "KEYBOARD"
    THEN FALSE
    ELSE event_type_to_char(kmi.type) \in remapped_input_characters(layout_translation)

is_remappable_keymap_item(kmi, layout_translation) ==
    IF kmi.map_type # "KEYBOARD" \/ kmi.value \notin {"PRESS", "RELEASE"}
    THEN FALSE
    ELSE event_type_to_char(kmi.type) \in remapped_input_characters(layout_translation)

is_remapped_keymap_item(kmi, layout_translation) ==
    IF kmi.map_type # "KEYBOARD" \/ kmi.value \notin {"PRESS", "RELEASE"}
    THEN FALSE
    ELSE event_type_to_char(kmi.type) \in remapped_output_characters(layout_translation)

\* operator_properties_to_dict: the item's properties (an Optional dict of
\* name -> value) as a Python dict; nested property groups become dicts
RECURSIVE operator_property_value_to_dict(_)
operator_property_value_to_dict(value) ==
    IF value.t = "dict"
    THEN JObj([i \in DOMAIN value.v |->
                 <<value.v[i][1], operator_property_value_to_dict(value.v[i][2])>>])
    ELSE IF value.t = "list"
    THEN JList([i \in DOMAIN value.v |-> operator_property_value_to_dict(value.v[i])])
    ELSE value

operator_properties_to_dict(properties) ==
    IF properties = None THEN None
    ELSE Some([i \in DOMAIN properties[1] |->
                 <<properties[1][i][1],
                   operator_property_value_to_dict(properties[1][i][2])>>])

\* compact_operator_properties on a dict: falsy values are dropped, nested
\* dicts are compacted (to None when nothing is left), an empty result is None
RECURSIVE CompactDict(_)
CompactDict(d) ==
    LET kept == SelectSeq(d, LAMBDA p : Truthy(p[2]))
        compacted == [i \in DOMAIN kept |->
                         <<kept[i][1],
                           IF kept[i][2].t = "dict"
                           THEN LET c == CompactDict(kept[i][2].v)
                                IN  IF c = None THEN JNull ELSE JObj(c[1])
                           ELSE kept[i][2]>>]
    IN  IF compacted # <<>> THEN Some(compacted) ELSE None

compact_operator_properties(properties) ==
    IF properties = None THEN None ELSE CompactDict(properties[1])

\* op_ch(op, ch) and kmi_modifier_string(kmi): the string as its pieces
op_ch(op, ch) ==
    IF op # 0 THEN (IF op < 0 THEN <<"~">> ELSE <<>>) \o <<ch>> ELSE <<>>

kmi_modifier_string(kmi) ==
    op_ch(kmi.hyper, "@") \o op_ch(kmi.oskey, "#") \o op_ch(kmi.ctrl, "^")
        \o op_ch(kmi.alt, "!") \o op_ch(kmi.shift, "+")
        \o (IF kmi.key_modifier # "NONE" THEN <<kmi.key_modifier>> ELSE <<>>)
        \o (IF kmi.repeat THEN <<"*">> ELSE <<>>)

\* KmiFingerprint.from_kmi
KmiFingerprint_from_kmi(kmi) ==
    LET stored_props == IF kmi.properties # None
                        THEN compact_operator_properties(
                                 operator_properties_to_dict(kmi.properties))
                        ELSE None
        propvalue == IF kmi.propvalue = "NONE" THEN None ELSE Some(kmi.propvalue)
    IN  [properties |-> stored_props, propvalue |-> propvalue, active |-> kmi.active]

\* KmiFingerprint.__eq__
KmiFingerprint_eq(self, other) ==
    /\ (self.properties = None) = (other.properties = None)
    /\ self.properties # None =>
          PyEq(JObj(self.properties[1]), JObj(other.properties[1]))
    /\ self.propvalue = other.propvalue
    /\ self.active = other.active

\* KmiAssignmentDiff.from_kmi_and_chars / from_kmi_and_types
KmiAssignmentDiff_from_kmi_and_chars(kmi, source_char, target_char) ==
    [modifiers |-> kmi_modifier_string(kmi), source_char |-> source_char,
     target_char |-> target_char, value |-> kmi.value]
KmiAssignmentDiff_from_kmi_and_types(kmi, source_type, target_type) ==
    KmiAssignmentDiff_from_kmi_and_chars(
        kmi, event_type_to_char(source_type), event_type_to_char(target_type))

\* the only element of a one-element set of indexes
TheOnly(S) == CHOOSE i \in S : TRUE

\* (mutant) resolve_remapped_keymap_item without the return of a single
\* fingerprint-equal candidate: the character tests come first
resolve_remapped_keymap_item_NoShortcut(kmi, per_op_kmi) ==
    LET test_fingerprint == KmiFingerprint_from_kmi(kmi)
        compatible == {i \in DOMAIN per_op_kmi :
                          KmiFingerprint_eq(test_fingerprint, per_op_kmi[i][1])}
        kmi_char == event_type_to_char(kmi.type)
        compatible_after == {i \in compatible : kmi_char = per_op_kmi[i][2].target_char}
        compatible_before == {i \in compatible : kmi_char = per_op_kmi[i][2].source_char}
        kmi_modifier == kmi_modifier_string(kmi)
        narrowed == {i \in compatible :
                        /\ kmi_modifier = per_op_kmi[i][2].modifiers
                        /\ kmi.value = per_op_kmi[i][2].value}
        narrowed_after == {i \in narrowed : kmi_char = per_op_kmi[i][2].target_char}
        narrowed_before == {i \in narrowed : kmi_char = per_op_kmi[i][2].source_char}
    IN  IF compatible = {} THEN 0
        ELSE IF Cardinality(compatible_after) = 1 THEN TheOnly(compatible_after)
        ELSE IF Cardinality(compatible_before) = 1 THEN TheOnly(compatible_before)
        ELSE IF Cardinality(narrowed) = 1 THEN TheOnly(narrowed)
        ELSE IF narrowed = {} THEN 0
        ELSE IF Cardinality(narrowed_after) = 1 THEN TheOnly(narrowed_after)
        ELSE IF Cardinality(narrowed_before) = 1 THEN TheOnly(narrowed_before)
        ELSE 0

\* (mutant) resolve_remapped_keymap_item that takes the first candidate left
\* when the last character tests are not unique
resolve_remapped_keymap_item_FirstOnAmbiguity(kmi, per_op_kmi) ==
    LET test_fingerprint == KmiFingerprint_from_kmi(kmi)
        compatible == {i \in DOMAIN per_op_kmi :
                          KmiFingerprint_eq(test_fingerprint, per_op_kmi[i][1])}
        kmi_char == event_type_to_char(kmi.type)
        compatible_after == {i \in compatible : kmi_char = per_op_kmi[i][2].target_char}
        compatible_before == {i \in compatible : kmi_char = per_op_kmi[i][2].source_char}
        kmi_modifier == kmi_modifier_string(kmi)
        narrowed == {i \in compatible :
                        /\ kmi_modifier = per_op_kmi[i][2].modifiers
                        /\ kmi.value = per_op_kmi[i][2].value}
        narrowed_after == {i \in narrowed : kmi_char = per_op_kmi[i][2].target_char}
        narrowed_before == {i \in narrowed : kmi_char = per_op_kmi[i][2].source_char}
    IN  IF Cardinality(compatible) = 1 THEN TheOnly(compatible)
        ELSE IF compatible = {} THEN 0
        ELSE IF Cardinality(compatible_after) = 1 THEN TheOnly(compatible_after)
        ELSE IF Cardinality(compatible_before) = 1 THEN TheOnly(compatible_before)
        ELSE IF Cardinality(narrowed) = 1 THEN TheOnly(narrowed)
        ELSE IF narrowed = {} THEN 0
        ELSE IF Cardinality(narrowed_after) = 1 THEN TheOnly(narrowed_after)
        ELSE IF Cardinality(narrowed_before) = 1 THEN TheOnly(narrowed_before)
        ELSE IF narrowed_after # {}
             THEN CHOOSE i \in narrowed_after : \A h \in narrowed_after : i <= h
        ELSE IF narrowed_before # {}
             THEN CHOOSE i \in narrowed_before : \A h \in narrowed_before : i <= h
        ELSE 0

\* (mutant) resolve_remapped_keymap_item with the two character tests in the
\* other order: source_char is tried before target_char
resolve_remapped_keymap_item_SourceFirst(kmi, per_op_kmi) ==
    LET test_fingerprint == KmiFingerprint_from_kmi(kmi)
        compatible == {i \in DOMAIN per_op_kmi :
                          KmiFingerprint_eq(test_fingerprint, per_op_kmi[i][1])}
        kmi_char == event_type_to_char(kmi.type)
        compatible_after == {i \in compatible : kmi_char = per_op_kmi[i][2].target_char}
        compatible_before == {i \in compatible : kmi_char = per_op_kmi[i][2].source_char}
        kmi_modifier == kmi_modifier_string(kmi)
        narrowed == {i \in compatible :
                        /\ kmi_modifier = per_op_kmi[i][2].modifiers
                        /\ kmi.value = per_op_kmi[i][2].value}
        narrowed_after == {i \in narrowed : kmi_char = per_op_kmi[i][2].target_char}
        narrowed_before == {i \in narrowed : kmi_char = per_op_kmi[i][2].source_char}
    IN  IF Cardinality(compatible) = 1 THEN TheOnly(compatible)
        ELSE IF compatible = {} THEN 0
        ELSE IF Cardinality(compatible_before) = 1 THEN TheOnly(compatible_before)
        ELSE IF Cardinality(compatible_after) = 1 THEN TheOnly(compatible_after)
        ELSE IF Cardinality(narrowed) = 1 THEN TheOnly(narrowed)
        ELSE IF narrowed = {} THEN 0
        ELSE IF Cardinality(narrowed_before) = 1 THEN TheOnly(narrowed_before)
        ELSE IF Cardinality(narrowed_after) = 1 THEN TheOnly(narrowed_after)
        ELSE 0

\* resolve_remapped_keymap_item(kmi, per_op_kmi): the index in per_op_kmi of
\* the candidate returned, 0 for None
resolve_remapped_keymap_item(kmi, per_op_kmi) ==
    LET test_fingerprint == KmiFingerprint_from_kmi(kmi)
        compatible == {i \in DOMAIN per_op_kmi :
                          KmiFingerprint_eq(test_fingerprint, per_op_kmi[i][1])}
        kmi_char == event_type_to_char(kmi.type)
        compatible_after == {i \in compatible : kmi_char = per_op_kmi[i][2].target_char}
        compatible_before == {i \in compatible : kmi_char = per_op_kmi[i][2].source_char}
        kmi_modifier == kmi_modifier_string(kmi)
        narrowed == {i \in compatible :
                        /\ kmi_modifier = per_op_kmi[i][2].modifiers
                        /\ kmi.value = per_op_kmi[i][2].value}
        narrowed_after == {i \in narrowed : kmi_char = per_op_kmi[i][2].target_char}
        narrowed_before == {i \in narrowed : kmi_char = per_op_kmi[i][2].source_char}
    IN  IF Cardinality(compatible) = 1 THEN TheOnly(compatible)
        ELSE IF compatible = {} THEN 0
        ELSE IF Cardinality(compatible_after) = 1 THEN TheOnly(compatible_after)
        ELSE IF Cardinality(compatible_before) = 1 THEN TheOnly(compatible_before)
        ELSE IF Cardinality(narrowed) = 1 THEN TheOnly(narrowed)
        ELSE IF narrowed = {} THEN 0
        ELSE IF Cardinality(narrowed_after) = 1 THEN TheOnly(narrowed_after)
        ELSE IF Cardinality(narrowed_before) = 1 THEN TheOnly(narrowed_before)
        ELSE 0

----------------------------------------------------------------------------
\* preferences.py: the journal of remapped keys and its JSON text

\* KmiFingerprint.encode_json / decode_json (decoding is positional, by type)
KmiFingerprint_encode_json(self) ==
    (IF self.properties # None /\ self.properties[1] # <<>>
        THEN <<JObj(self.properties[1])>> ELSE <<>>)
    \o (IF self.propvalue # None THEN <<JStr(self.propvalue[1])>> ELSE <<>>)
    \o (IF ~self.active THEN <<JBool(FALSE)>> ELSE <<>>)

KmiFingerprint_decode_json(s) ==
    LET has_p == 0 < Len(s) /\ s[1].t = "dict"
        i1 == IF has_p THEN 1 ELSE 0
        has_v == i1 < Len(s) /\ s[i1 + 1].t = "str"
        i2 == IF has_v THEN i1 + 1 ELSE i1
        has_a == i2 < Len(s) /\ s[i2 + 1].t = "bool"
    IN  [properties |-> IF has_p THEN Some(s[1].v) ELSE None,
         propvalue |-> IF has_v THEN Some(s[i1 + 1].v) ELSE None,
         active |-> IF has_a THEN s[i2 + 1].v ELSE TRUE]

\* KmiAssignmentDiff.encode_json / decode_json
KmiAssignmentDiff_encode_json(self) ==
    <<JStr(self.modifiers), JStr(self.source_char), JStr(self.target_char)>>
    \o (IF self.value # "PRESS" THEN <<JStr(self.value)>> ELSE <<>>)

\* the leading run of strings of s, at most four, fills the fields in order
RECURSIVE LeadingStrs(_)
LeadingStrs(s) ==
    IF s # <<>> /\ s[1].t = "str" THEN <<s[1].v>> \o LeadingStrs(Tail(s)) ELSE <<>>

KmiAssignmentDiff_decode_json(s) ==
    LET strs == LeadingStrs(s)
    IN  [modifiers |-> IF Len(strs) >= 1 THEN strs[1] ELSE <<>>,
         source_char |-> IF Len(strs) >= 2 THEN strs[2] ELSE "",
         target_char |-> IF Len(strs) >= 3 THEN strs[3] ELSE "",
         value |-> IF Len(strs) >= 4 THEN strs[4] ELSE "PRESS"]

\* encode_remapped_keys: journal (dict km_id -> dict op -> list of
\* (fingerprint, diff)) to a JSON value; None to null
encode_remapped_keys(remapped) ==
    IF remapped = None THEN JNull
    ELSE JObj([k \in DOMAIN remapped[1] |->
            <<remapped[1][k][1],
              JObj([o \in DOMAIN remapped[1][k][2] |->
                  <<remapped[1][k][2][o][1],
                    JList([e \in DOMAIN remapped[1][k][2][o][2] |->
                        JList(<<JList(KmiFingerprint_encode_json(
                                          remapped[1][k][2][o][2][e][1])),
                                JList(KmiAssignmentDiff_encode_json(
                                          remapped[1][k][2][o][2][e][2]))>>)])>>])>>])

\* decode_remapped_keys: ill-formed and empty levels are dropped
DecodeOpItems(op_items) ==
    LET good == SelectSeq(op_items, LAMBDA item :
                    /\ item.t = "list" /\ Len(item.v) = 2
                    /\ item.v[1].t = "list" /\ item.v[2].t = "list")
    IN  [e \in DOMAIN good |->
            <<KmiFingerprint_decode_json(good[e].v[1].v),
              KmiAssignmentDiff_decode_json(good[e].v[2].v)>>]

DecodeKeymapItems(keymap_items) ==
    LET good == SelectSeq(keymap_items, LAMBDA p : p[2].t = "list" /\ p[2].v # <<>>)
    IN  [o \in DOMAIN good |-> <<good[o][1], DecodeOpItems(good[o][2].v)>>]

decode_remapped_keys(remapped) ==
    IF remapped.t = "null" THEN None
    ELSE LET good == SelectSeq(remapped.v, LAMBDA p : p[2].t = "dict" /\ p[2].v # <<>>)
         IN  Some([k \in DOMAIN good |-> <<good[k][1], DecodeKeymapItems(good[k][2].v)>>])

\* KLEPreferences.remapped_keys (getter) on the text of remapped_keys_json.
\* json_cached_loads parses a text that is not empty and hands the value to
\* decode_remapped_keys, which calls value.items() on all but null: a text
\* that is no JSON raises in json.loads, a top level that is neither null
\* nor an object raises AttributeError.  Otherwise the decoded journal, {}
\* when it is None or empty
remapped_keys_get(text) ==
    IF text = EmptyText THEN Returned(<<>>)
    ELSE IF text = MalformedText THEN Raised
    ELSE IF text.value.t \notin {"null", "dict"} THEN Raised
    ELSE LET d == decode_remapped_keys(text.value)
         IN  IF d # None /\ d[1] # <<>> THEN Returned(d[1]) ELSE Returned(<<>>)
\* ... its value
remapped_keys(text) == remapped_keys_get(text).value

\* json_cached_loads: both readers of one pass get the one cached object when
\* the text decodes to a non-empty dict; otherwise each gets a dict of its own
SharesCachedJournal(text) == remapped_keys(text) # <<>>

\* KLEPreferences.remapped_keys (setter): the text written
remapped_keys_set(value) == JsonText(encode_remapped_keys(value))

Range(s) == {s[i] : i \in DOMAIN s}

\* freeze_map: a hashable image of a JSON value (dicts lose their order)
RECURSIVE freeze_map(_)
freeze_map(d) ==
    IF d.t = "dict" THEN [t |-> "frozenset",
                          v |-> {<<p[1], freeze_map(p[2])>> : p \in Range(d.v)}]
    ELSE IF d.t = "list" THEN [t |-> "tuple",
                               v |-> [i \in DOMAIN d.v |-> freeze_map(d.v[i])]]
    ELSE d

\* a journal item (km_id, op_idname, fingerprint, diff), frozen through the
\* encode_json of its fingerprint and diff
FrozenItem(km_id, op_idname, fingerprint, diff) ==
    <<km_id, op_idname,
      freeze_map(JList(KmiFingerprint_encode_json(fingerprint))),
      freeze_map(JList(KmiAssignmentDiff_encode_json(diff)))>>

RECURSIVE Concat(_)
Concat(ss) == IF ss = <<>> THEN <<>> ELSE ss[1] \o Concat(Tail(ss))

\* (mutant) all_items with every frozen value kept once
RECURSIVE Distinct(_)
Distinct(s) ==
    IF s = <<>> THEN <<>>
    ELSE <<s[1]>> \o Distinct(SelectSeq(Tail(s), LAMBDA x : x # s[1]))
AllItems_Distinct(remapped) ==
    Distinct(Concat([k \in DOMAIN remapped |->
        Concat([o \in DOMAIN remapped[k][2] |->
            [e \in DOMAIN remapped[k][2][o][2] |->
                FrozenItem(remapped[k][1], remapped[k][2][o][1],
                           remapped[k][2][o][2][e][1], remapped[k][2][o][2][e][2])]])]))

\* all_items of revert_keymap_translation: the frozen journal items, in the
\* order of the journal
AllItems(remapped) ==
    Concat([k \in DOMAIN remapped |->
        Concat([o \in DOMAIN remapped[k][2] |->
            [e \in DOMAIN remapped[k][2][o][2] |->
                FrozenItem(remapped[k][1], remapped[k][2][o][1],
                           remapped[k][2][o][2][e][1], remapped[k][2][o][2][e][2])]])])

\* the places of the journal's entries: <<km_id, op_idname, index>>
JournalPlaces(remapped) ==
    UNION {UNION {{<<km[1], op[1], e>> : e \in DOMAIN op[2]}
                  : op \in Range(km[2])}
           : km \in Range(remapped)}

RECURSIVE SumSeq(_)
SumSeq(s) == IF s = <<>> THEN 0 ELSE s[1] + SumSeq(Tail(s))
\* number of (fingerprint, diff) entries of a journal
JournalSize(remapped) ==
    SumSeq([k \in DOMAIN remapped |->
              SumSeq([o \in DOMAIN remapped[k][2] |-> Len(remapped[k][2][o][2])])])

----------------------------------------------------------------------------
\* preferences.py: custom layouts and the preferred translation

\* KLEPreferences.custom_layouts (getter) on the text of custom_layouts_json:
\* name -> JSON value.  json_cached_loads parses a text that is not empty (a
\* text that is no JSON raises in json.loads); a value that is no object
\* reads as {}
custom_layouts_get(text) ==
    IF text = EmptyText THEN Returned(<<>>)
    ELSE IF text = MalformedText THEN Raised
    ELSE IF text.value.t # "dict" THEN Returned(<<>>)
    ELSE Returned(SelectSeq(text.value.v, LAMBDA p : ~is_built_in_layout(p[1])))
\* ... its value on the stored text
custom_layouts == custom_layouts_get(custom_layouts_json).value

\* KLEPreferences.custom_layouts (setter): the text written
custom_layouts_set(value) ==
    JsonText(JObj(SelectSeq(value, LAMBDA p : ~is_built_in_layout(p[1]))))

\* KLEPreferences.get_custom_layout: Optional dict physical key -> character
get_custom_layout(name) ==
    LET layout == DictGet(custom_layouts, name, JNull)
    IN  IF layout.t = "dict"
        THEN LET kept == SelectSeq(layout.v, LAMBDA p : p[2].t = "str")
             IN  Some([i \in DOMAIN kept |-> <<kept[i][1], kept[i][2].v>>])
        ELSE None

is_valid_layout(name) == is_built_in_layout(name) \/ DictHas(custom_layouts, name)

\* the properties preferred_input_layout / preferred_target_layout (getters)
preferred_input_layout ==
    IF is_valid_layout(hidden__preferred_input_layout)
    THEN hidden__preferred_input_layout ELSE "QWERTY"
preferred_target_layout ==
    IF is_valid_layout(hidden__preferred_target_layout)
    THEN hidden__preferred_target_layout ELSE "QWERTY"

\* KLEPreferences.get_layout_translation: Optional LayoutTranslation
get_layout_translation(name) ==
    IF is_built_in_layout(name) THEN Some(DictGet(built_in, name, QWERTY))
    ELSE LET layout_mapping == get_custom_layout(name)
         IN  IF layout_mapping # None
             THEN Some(from_dict(layout_mapping[1], Ellipsis)) ELSE None

\* `x or LayoutTranslation.QWERTY`
OrQWERTY(x) == IF x = None THEN QWERTY ELSE x[1]

get_preferred_layout_translation ==
    LET input == OrQWERTY(get_layout_translation(preferred_input_layout))
        target == OrQWERTY(get_layout_translation(preferred_target_layout))
    IN  IF is_identity(target) THEN input
        ELSE from_input_to_target(input, target)

is_preferred_layout_translation_applicable_and_non_trivial ==
    LET target == OrQWERTY(get_layout_translation(preferred_target_layout))
        input == OrQWERTY(get_layout_translation(preferred_input_layout))
    IN  IF ~is_valid(target) THEN FALSE
        ELSE IF ~allow_key_conflicts_in_input_layout /\ ~is_valid(input) THEN FALSE
        ELSE ~is_identity(from_input_to_target(input, target))

is_layout_editable(layout_name) ==
    IF is_built_in_layout(layout_name) THEN FALSE
    ELSE IF is_emulation_active THEN FALSE
    ELSE TRUE

----------------------------------------------------------------------------
\* preferences.py / keymap_patch.py: the plan and the apply pass
\*
\* pending_keymaps_to_emulate is a generator: reapply_keymap_translation
\* consumes it item by item and writes the journal between two items.  The
\* generator reads the journal through its own call of the remapped_keys
\* getter, so it sees these writes exactly when both calls returned the one
\* cached object (SharesCachedJournal).

\* (mutant) the generator's decision when an item that resolve leaves
\* unresolved is skipped
PendingOf_SkipsUnresolved(kmi, in_journal, remapped_km, layout_translation) ==
    IF ~in_journal
    THEN IF is_remappable_keymap_item(kmi, layout_translation) THEN 0 ELSE -1
    ELSE IF ~is_remappable_keymap_item(kmi, layout_translation) THEN -1
    ELSE IF ~DictHas(remapped_km, kmi.idname) THEN 0
    ELSE LET remapped_op == DictGet(remapped_km, kmi.idname, <<>>)
             rs == resolve_remapped_keymap_item(kmi, remapped_op)
         IN  IF rs = 0 THEN -1
             ELSE IF event_type_to_char(kmi.type) = remapped_op[rs][2].source_char
                  THEN rs
                  ELSE -1

\* (mutant) the generator's decision when every item that resolve matches
\* with a journal entry counts as already remapped
PendingOf_SkipsJournaled(kmi, in_journal, remapped_km, layout_translation) ==
    IF ~in_journal
    THEN IF is_remappable_keymap_item(kmi, layout_translation) THEN 0 ELSE -1
    ELSE IF ~is_remappable_keymap_item(kmi, layout_translation) THEN -1
    ELSE IF ~DictHas(remapped_km, kmi.idname) THEN 0
    ELSE IF resolve_remapped_keymap_item(kmi, DictGet(remapped_km, kmi.idname, <<>>)) = 0
         THEN 0 ELSE -1

\* the decision of the generator for one keymap item: -1 when nothing is
\* yielded, 0 when (km, kmi, None, None) is yielded, and the index of the
\* resolved journal entry when (km, kmi, fingerprint, diff) is yielded.
\* in_journal is `km_id in remapped_keymaps`, evaluated when the keymap is
\* entered; remapped_km is remapped_keymaps[km_id] as it is now
PendingOf(kmi, in_journal, remapped_km, layout_translation) ==
    IF ~in_journal
    THEN IF is_remappable_keymap_item(kmi, layout_translation) THEN 0 ELSE -1
    ELSE IF ~is_remappable_keymap_item(kmi, layout_translation) THEN -1
    ELSE IF ~DictHas(remapped_km, kmi.idname) THEN 0
    ELSE LET remapped_op == DictGet(remapped_km, kmi.idname, <<>>)
             rs == resolve_remapped_keymap_item(kmi, remapped_op)
         IN  IF rs = 0 THEN 0
             ELSE IF event_type_to_char(kmi.type) = remapped_op[rs][2].source_char
                  THEN rs
                  ELSE -1

\* the body of the loop of reapply_keymap_translation for one yielded item:
\* the journal after it
ReapplyBody(remapped, km, kmi, rs, translation) ==
    LET original_type == kmi.type
        new_type == map_input_type_to_output_type(translation, original_type)
        kmj == DictGet(remapped, keymap_id(km), <<>>)
        kmo == DictGet(kmj, kmi.idname, <<>>)
    IN  IF rs # 0
        THEN DictSet(remapped, keymap_id(km),
                 DictSet(kmj, kmi.idname,
                     [kmo EXCEPT ![rs][2].source_char = event_type_to_char(original_type),
                                 ![rs][2].target_char = event_type_to_char(new_type)]))
        ELSE DictSet(remapped, keymap_id(km),
                 DictSet(kmj, kmi.idname,
                     Append(kmo, <<KmiFingerprint_from_kmi(kmi),
                                   KmiAssignmentDiff_from_kmi_and_types(
                                       kmi, original_type, new_type)>>)))

\* the items i.. of keymap k.  st = [remapped, seen, remaps]: the journal of
\* the consumer, the journal the generator reads, the remaps collected.  The
\* generator classifies with the preferred translation it fetches itself
\* (preferred); the consumer maps with the translation it was handed.
\* consume = FALSE runs the generator alone (nothing is written)
RECURSIVE PassItems(_, _, _, _, _, _, _, _, _)
PassItems(keymaps, k, i, in_journal, st, preferred, translation, shared, consume) ==
    IF i > Len(keymaps[k].keymap_items) THEN st
    ELSE LET km == keymaps[k]
             kmi == km.keymap_items[i]
             rs == PendingOf(kmi, in_journal,
                             DictGet(st.seen, keymap_id(km), <<>>), preferred)
         IN  IF rs = -1
             THEN PassItems(keymaps, k, i + 1, in_journal, st, preferred,
                            translation, shared, consume)
             ELSE LET written == IF consume
                                 THEN ReapplyBody(st.remapped, km, kmi, rs, translation)
                                 ELSE st.remapped
                  IN  PassItems(keymaps, k, i + 1, in_journal,
                          [remapped |-> written,
                           seen |-> IF shared THEN written ELSE st.seen,
                           remaps |-> Append(st.remaps,
                               <<k, i, map_input_type_to_output_type(translation, kmi.type)>>)],
                          preferred, translation, shared, consume)

RECURSIVE PassKeymaps(_, _, _, _, _, _, _)
PassKeymaps(keymaps, k, st, preferred, translation, shared, consume) ==
    IF k > Len(keymaps) THEN st
    ELSE LET in_journal == DictHas(st.seen, keymap_id(keymaps[k]))
         IN  PassKeymaps(keymaps, k + 1,
                         PassItems(keymaps, k, 1, in_journal, st, preferred,
                                   translation, shared, consume),
                         preferred, translation, shared, consume)

\* KLEPreferences.pending_keymaps_to_emulate, run to its end on its own (as
\* has_pending_keymaps_to_emulate and the button's description consume it):
\* the sequence of <<keymap, item, new type>> yielded
pending_keymaps_to_emulate ==
    PassKeymaps(user_keymaps, 1,
                [remapped |-> remapped_keys(remapped_keys_json),
                 seen |-> remapped_keys(remapped_keys_json), remaps |-> <<>>],
                get_preferred_layout_translation, get_preferred_layout_translation,
                FALSE, FALSE).remaps

\* event types the host accepts for KeyMapItem.type; any other raises
HostEventTypes == DictKeys(event_type_to_char_dict) \cup {"NONE", "LEFTMOUSE"}

\* (mutant) the assignments with the try inside the loop: a rejected
\* assignment is skipped and the later ones are still done
RECURSIVE AssignTypes_SkipsRejected(_, _)
AssignTypes_SkipsRejected(keymaps, remaps) ==
    IF remaps = <<>> THEN [keymaps |-> keymaps, raised |-> FALSE]
    ELSE LET k == remaps[1][1]
             i == remaps[1][2]
             new_type == remaps[1][3]
             kmi == keymaps[k].keymap_items[i]
         IN  IF new_type \notin HostEventTypes
             THEN [AssignTypes_SkipsRejected(keymaps, Tail(remaps))
                      EXCEPT !.raised = TRUE]
             ELSE AssignTypes_SkipsRejected(
                     [keymaps EXCEPT ![k].keymap_items[i] =
                         [kmi EXCEPT !.type = new_type,
                                     !.g_applied = IF @ < MaxApplied THEN @ + 1 ELSE @]],
                     Tail(remaps))

\* `for kmi, new_type in remaps: kmi.type = new_type` inside the try: the
\* keymaps after it and whether an assignment raised (the rest is not done)
RECURSIVE AssignTypes(_, _)
AssignTypes(keymaps, remaps) ==
    IF remaps = <<>> THEN [keymaps |-> keymaps, raised |-> FALSE]
    ELSE LET k == remaps[1][1]
             i == remaps[1][2]
             new_type == remaps[1][3]
             kmi == keymaps[k].keymap_items[i]
         IN  IF new_type \notin HostEventTypes
             THEN [keymaps |-> keymaps, raised |-> TRUE]
             ELSE AssignTypes(
                     [keymaps EXCEPT ![k].keymap_items[i] =
                         [kmi EXCEPT !.type = new_type,
                                     !.g_applied = IF @ < MaxApplied THEN @ + 1 ELSE @]],
                     Tail(remaps))

\* (mutant) the journal committed after the assignments, inside the try: a
\* rejected assignment leaves the text as it was
ReapplyResult_JournalAfterLoop(st, done) ==
    [ok |-> ~done.raised, refused |-> FALSE,
     remapped_keys_json |-> IF done.raised THEN remapped_keys_json
                            ELSE remapped_keys_set(Some(st.remapped)),
     user_keymaps |-> done.keymaps, remaps |-> st.remaps]

\* the end of reapply_keymap_translation: st is the loop's outcome, done the
\* outcome of the assignments; the journal is written before them
ReapplyResult(st, done) ==
    [ok |-> ~done.raised, refused |-> FALSE,
     remapped_keys_json |-> remapped_keys_set(Some(st.remapped)),
     user_keymaps |-> done.keymaps, remaps |-> st.remaps]
ReapplyCommit(st) == ReapplyResult(st, AssignTypes(user_keymaps, st.remaps))

\* reapply_keymap_translation without its refusal of a Translation with
\* conflicts
reapply_keymap_translation_Unguarded(translation) ==
    ReapplyCommit(
        PassKeymaps(user_keymaps, 1,
                    [remapped |-> remapped_keys(remapped_keys_json),
                     seen |-> remapped_keys(remapped_keys_json),
                     remaps |-> <<>>],
                    get_preferred_layout_translation, translation,
                    SharesCachedJournal(remapped_keys_json), TRUE))

\* reapply_keymap_translation(translation): [ok, refused, remapped_keys_json,
\* user_keymaps, remaps] after the call
reapply_keymap_translation(translation) ==
    IF ~is_valid(translation) /\ ~allow_key_conflicts_in_input_layout
    THEN [ok |-> FALSE, refused |-> TRUE, remapped_keys_json |-> remapped_keys_json,
          user_keymaps |-> user_keymaps, remaps |-> <<>>]
    ELSE ReapplyCommit(
            PassKeymaps(user_keymaps, 1,
                        [remapped |-> remapped_keys(remapped_keys_json),
                         seen |-> remapped_keys(remapped_keys_json),
                         remaps |-> <<>>],
                        get_preferred_layout_translation, translation,
                        SharesCachedJournal(remapped_keys_json), TRUE))

----------------------------------------------------------------------------
\* keymap_patch.py: the revert pass

\* KLEPreferences.remapped_keymap_items consumed by the loop of
\* revert_keymap_translation, items i.. of keymap k.  st = [keymaps,
\* processed, raised]: the keymaps so far, the frozen items processed, and
\* whether an assignment of kmi.type raised (nothing catches it)
RECURSIVE RevertItems(_, _, _, _, _)
RevertItems(remapped_keymaps, layout_translation, k, i, st) ==
    IF st.raised \/ i > Len(st.keymaps[k].keymap_items) THEN st
    ELSE LET km == st.keymaps[k]
             kmi == km.keymap_items[i]
             remapped_km == DictGet(remapped_keymaps, keymap_id(km), <<>>)
             remapped_op == DictGet(remapped_km, kmi.idname, <<>>)
             rs == IF /\ is_remapped_keymap_item(kmi, layout_translation)
                      /\ DictHas(remapped_km, kmi.idname)
                   THEN resolve_remapped_keymap_item(kmi, remapped_op)
                   ELSE 0
         IN  IF rs = 0
             THEN RevertItems(remapped_keymaps, layout_translation, k, i + 1, st)
             ELSE LET fingerprint == remapped_op[rs][1]
                      diff == remapped_op[rs][2]
                      new_type == char_to_event_type(diff.source_char)
                  IN  IF new_type \notin HostEventTypes
                      THEN [st EXCEPT !.raised = TRUE]
                      ELSE RevertItems(remapped_keymaps, layout_translation, k, i + 1,
                             [st EXCEPT
                                !.keymaps[k].keymap_items[i].type = new_type,
                                !.processed = @ \cup
                                    {FrozenItem(keymap_id(km), kmi.idname,
                                                fingerprint, diff)},
                                !.matched = @ \cup
                                    {<<keymap_id(km), kmi.idname, rs>>}])

RECURSIVE RevertKeymaps(_, _, _, _)
RevertKeymaps(remapped_keymaps, layout_translation, k, st) ==
    IF st.raised \/ k > Len(st.keymaps) THEN st
    ELSE RevertKeymaps(remapped_keymaps, layout_translation, k + 1,
            IF DictHas(remapped_keymaps, keymap_id(st.keymaps[k]))
            THEN RevertItems(remapped_keymaps, layout_translation, k, 1, st)
            ELSE st)

\* every item's count of apply mutations starts again from its present type
Settled(keymaps) ==
    [k \in DOMAIN keymaps |->
        [keymaps[k] EXCEPT !.keymap_items =
            [i \in DOMAIN keymaps[k].keymap_items |->
                [keymaps[k].keymap_items[i] EXCEPT
                    !.g_orig = keymaps[k].keymap_items[i].type, !.g_applied = 0]]]]

\* (mutant) the end of revert_keymap_translation with the journal cleared
\* only when nothing was left unprocessed
RevertResult_KeepsJournalOnFailure(all_items, st) ==
    IF st.raised
    THEN [ok |-> FALSE, raised |-> TRUE, unprocessed |-> 0, matched |-> st.matched,
          remapped_keys_json |-> remapped_keys_json,
          user_keymaps |-> st.keymaps, processed |-> st.processed]
    ELSE [ok |-> SelectSeq(all_items, LAMBDA item : item \notin st.processed) = <<>>,
          raised |-> FALSE,
          unprocessed |-> Len(SelectSeq(all_items,
                                        LAMBDA item : item \notin st.processed)),
          matched |-> st.matched,
          remapped_keys_json |-> IF \A i \in DOMAIN all_items :
                                       all_items[i] \in st.processed
                                 THEN remapped_keys_set(None)
                                 ELSE remapped_keys_json,
          user_keymaps |-> Settled(st.keymaps), processed |-> st.processed]

\* the end of revert_keymap_translation: st is the loop's outcome
RevertResult(all_items, st) ==
    IF st.raised
    THEN [ok |-> FALSE, raised |-> TRUE, unprocessed |-> 0, matched |-> st.matched,
          remapped_keys_json |-> remapped_keys_json,
          user_keymaps |-> st.keymaps, processed |-> st.processed]
    ELSE [ok |-> SelectSeq(all_items, LAMBDA item : item \notin st.processed) = <<>>,
          raised |-> FALSE,
          unprocessed |-> Len(SelectSeq(all_items,
                                        LAMBDA item : item \notin st.processed)),
          matched |-> st.matched,
          remapped_keys_json |-> remapped_keys_set(None),
          user_keymaps |-> Settled(st.keymaps), processed |-> st.processed]

\* revert_keymap_translation(): [ok, raised, remapped_keys_json,
\* user_keymaps, processed] after the call, with unprocessed, the number of
\* unprocessed_items it reports, and matched, the places of the journal
\* entries that a keymap item resolved to (which the code does not keep)
revert_keymap_translation ==
    RevertResult(AllItems(remapped_keys(remapped_keys_json)),
                 RevertKeymaps(remapped_keys(remapped_keys_json),
                               get_preferred_layout_translation, 1,
                               [keymaps |-> user_keymaps, processed |-> {},
                                matched |-> {}, raised |-> FALSE]))

----------------------------------------------------------------------------
\* The remap engine as a state machine: the host's keymaps, the add-on
\* preferences, and the operators / handlers that act on them

\* the user keyconfig holds these keymaps; the host fills them with items
EmptyKeymaps ==
    << [is_modal |-> FALSE, space_type |-> "VIEW_3D", region_type |-> "WINDOW",
        name |-> "3D View", keymap_items |-> <<>>],
       [is_modal |-> TRUE, space_type |-> "EMPTY", region_type |-> "WINDOW",
        name |-> "Knife Tool Modal Map", keymap_items |-> <<>>] >>

\* a keymap item as the host creates it; g_orig and g_applied observe it:
\* the type it had when no apply mutation was outstanding, and the number of
\* apply mutations since
Kmi(idname, type, map_type, ctrl, properties) ==
    [idname |-> idname, type |-> type, map_type |-> map_type, value |-> "PRESS",
     hyper |-> 0, oskey |-> 0, ctrl |-> ctrl, alt |-> 0, shift |-> 0,
     key_modifier |-> "NONE", repeat |-> FALSE,
     properties |-> properties, propvalue |-> "NONE", active |-> TRUE,
     g_orig |-> type, g_applied |-> 0]

\* the keymap items the host may add
HostItems ==
    { Kmi("view3d.a", "Y", "KEYBOARD", 0, None),
      Kmi("view3d.a", "Z", "KEYBOARD", 0, None),
      Kmi("view3d.a", "Y", "KEYBOARD", 1, None),
      Kmi("view3d.a", "Y", "KEYBOARD", 0,
          Some(<< <<"name", JStr("x")>>, <<"extend", JBool(FALSE)>> >>)),
      Kmi("view3d.b", "Y", "KEYBOARD", 0, None),
      Kmi("view3d.a", "LEFTMOUSE", "MOUSE", 0, None) }

\* the second keymap is given the plain items on Y and Z only
HostItemsOf(k) ==
    IF k = 1 THEN HostItems
    ELSE {item \in HostItems : /\ item.idname = "view3d.a" /\ item.type \in {"Y", "Z"}
                               /\ item.ctrl = 0 /\ item.properties = None}

\* the layouts the user selects, the custom layout names the user gives, the
\* physical keys the user edits and the characters the capture assigns
SelectableLayouts == {"QWERTY", "QWERTZ", "L"}
CustomLayoutNames == {"L"}
EditedPhysicalKeys == {"Y"}
CapturedChars == {"Z"}

NumBindings == SumSeq([k \in DOMAIN user_keymaps |-> Len(user_keymaps[k].keymap_items)])

\* ---- observation of the engine (no operation reads it)
\* last: the latest operation.  op: "pass" (one run of
\* reapply_keymap_translation), "revert", "host_add" or "config"; ok: its
\* result; n: the number of items it remapped / restored; km: the keymap of
\* the item added; pre: what came just before ("pass": a successful pass,
\* "add": items added since a successful pass, else "other").
\* hist: reverted, a revert has run; switched, the preferred Translation was
\* changed while some item carried an apply mutation
Observed(op, ok, n, km, pre) ==
    [op |-> op, ok |-> ok, n |-> n, km |-> km, pre |-> pre]
Configured == Observed("config", TRUE, 0, 0, "other")
Pre ==
    IF last.op = "pass" /\ last.ok THEN "pass"
    ELSE IF last.op = "host_add" THEN last.pre
    ELSE "other"
\* some item carries an apply mutation
Engaged == \E k \in DOMAIN user_keymaps : \E i \in DOMAIN user_keymaps[k].keymap_items :
              user_keymaps[k].keymap_items[i].g_applied > 0

EngineInit ==
    /\ user_keymaps = EmptyKeymaps
    /\ remapped_keys_json = EmptyText
    /\ custom_layouts_json = EmptyText
    /\ hidden__preferred_input_layout = "QWERTY"
    /\ hidden__preferred_target_layout = "QWERTY"
    /\ is_emulation_active = FALSE
    /\ allow_key_conflicts_in_input_layout = FALSE
    /\ last = Configured
    /\ hist = [reverted |-> FALSE, switched |-> FALSE]

\* the defaults of reapply_on_reload and reapply_on_reload_delay; no timer
\* is pending
ReloadIdle ==
    /\ reapply_on_reload = TRUE
    /\ reapply_on_reload_delay = 3
    /\ timers = <<>>

\* the default of detect_addon_changes, the add-ons active at the start and
\* the globals of ui.py as the module sets them
AddonIdle ==
    /\ detect_addon_changes = TRUE
    /\ addons = {"keyboard_layout_emulation"}
    /\ last_active_addons_set = {}
    /\ addon_check_scheduled = FALSE
    /\ drawn_since_poll = FALSE

\* the default of reapply_on_keymaps_panel, the global of ui.py as the
\* module sets it; no timer of the panel is pending
PanelIdle ==
    /\ reapply_on_keymaps_panel = FALSE
    /\ keymap_prefs_reapply_requested = FALSE
    /\ panel_timers = 0
    /\ panel_ran = FALSE

\* the host (Blender, the user, another add-on) appends an item to keymap k
HostAddKeymapItem(k, item) ==
    /\ NumBindings < MaxBindings
    /\ user_keymaps' = [user_keymaps EXCEPT ![k].keymap_items = Append(@, item)]
    /\ last' = Observed("host_add", TRUE, 0, k,
                        IF Pre = "other" THEN "other" ELSE "add")
    /\ UNCHANGED <<remapped_keys_json, custom_layouts_json,
                   hidden__preferred_input_layout, hidden__preferred_target_layout,
                   is_emulation_active, allow_key_conflicts_in_input_layout, hist>>

\* one run of reapply_keymap_translation with outcome r, observed
Ran(r) ==
    /\ user_keymaps' = r.user_keymaps
    /\ remapped_keys_json' = r.remapped_keys_json
    /\ last' = Observed("pass", r.ok, Len(r.remaps),
                        IF last.op = "host_add" THEN last.km ELSE 0, Pre)
    /\ UNCHANGED hist
\* ... on the preferred translation
Pass ==
    /\ JournalSize(remapped_keys(remapped_keys_json)) < MaxJournal
    /\ Ran(reapply_keymap_translation(get_preferred_layout_translation))

\* WM_OT_kle_apply_layout_emulation: poll, then execute
ApplyOperator ==
    /\ is_preferred_layout_translation_applicable_and_non_trivial
    /\ Pass
    /\ is_emulation_active' = TRUE
    /\ UNCHANGED <<custom_layouts_json, hidden__preferred_input_layout,
                   hidden__preferred_target_layout,
                   allow_key_conflicts_in_input_layout>>

\* on_reapply_requested: maybe_reapply_translation(for_reload=False)
on_reapply_requested ==
    /\ is_emulation_active
    /\ Pass
    /\ UNCHANGED <<custom_layouts_json, hidden__preferred_input_layout,
                   hidden__preferred_target_layout, is_emulation_active,
                   allow_key_conflicts_in_input_layout>>

\* one run of revert_keymap_translation with outcome r, observed; an
\* exception leaves the operator's execute before the flag is cleared
Reverted(r) ==
    /\ user_keymaps' = r.user_keymaps
    /\ remapped_keys_json' = r.remapped_keys_json
    /\ is_emulation_active' = IF r.raised THEN is_emulation_active ELSE FALSE
    /\ last' = Observed("revert", r.ok, Cardinality(r.processed), 0,
                        IF last.op = "pass" /\ last.ok /\ last.n > 0
                        THEN "pass" ELSE "other")

\* WM_OT_kle_revert_layout_emulation: poll, then execute
RevertOperator ==
    /\ is_emulation_active
    /\ Reverted(revert_keymap_translation)
    /\ hist' = [hist EXCEPT !.reverted = TRUE]
    /\ UNCHANGED <<custom_layouts_json, hidden__preferred_input_layout,
                   hidden__preferred_target_layout,
                   allow_key_conflicts_in_input_layout>>

\* on_current_input_layout_update: the user picks an entry of the layout enum
SelectInputLayout(name) ==
    /\ is_valid_layout(name)
    /\ hidden__preferred_input_layout' = name
    /\ last' = Configured
    /\ hist' = IF Engaged /\ name # preferred_input_layout
               THEN [hist EXCEPT !.switched = TRUE] ELSE hist
    /\ UNCHANGED <<user_keymaps, remapped_keys_json, custom_layouts_json,
                   hidden__preferred_target_layout, is_emulation_active,
                   allow_key_conflicts_in_input_layout>>

\* the user flips the allow_key_conflicts_in_input_layout checkbox
ToggleAllowKeyConflicts ==
    /\ allow_key_conflicts_in_input_layout' = ~allow_key_conflicts_in_input_layout
    /\ last' = Configured
    /\ UNCHANGED <<user_keymaps, remapped_keys_json, custom_layouts_json,
                   hidden__preferred_input_layout, hidden__preferred_target_layout,
                   is_emulation_active, hist>>

\* KLEPreferences.set_custom_layout(name, layout) with a layout that is not
\* None, past its two raises: the text of custom_layouts_json written
set_custom_layout(name, layout) ==
    custom_layouts_set(
        DictSet(custom_layouts, name,
                JObj([i \in DOMAIN layout |-> <<layout[i][1], JStr(layout[i][2])>>])))

\* WM_OT_kle_add_custom_layout.execute: the copy of the current layout is
\* stored; the call of is_layout_editable that follows passes a keyword the
\* method does not take and raises, so nothing is selected
AddCustomLayout(name) ==
    /\ ~is_built_in_layout(name)
    /\ ~is_valid_layout(name)
    /\ is_layout_editable(name)
    /\ custom_layouts_json' =
          set_custom_layout(name,
              OrQWERTY(get_layout_translation(preferred_input_layout)).in_out)
    /\ last' = Configured
    /\ UNCHANGED <<user_keymaps, remapped_keys_json,
                   hidden__preferred_input_layout, hidden__preferred_target_layout,
                   is_emulation_active, allow_key_conflicts_in_input_layout, hist>>

\* WM_OT_kle_capture_key_for_mapping: invoke, then the key press in modal:
\* update_layout_key(layout, physical, mapped)
CaptureKeyForMapping(layout, physical, mapped) ==
    /\ ~is_built_in_layout(layout)
    /\ is_layout_editable(layout)
    /\ get_custom_layout(layout) # None
    /\ custom_layouts_json' =
          set_custom_layout(layout, DictSet(get_custom_layout(layout)[1], physical, mapped))
    /\ last' = Configured
    /\ hist' = IF Engaged /\ layout = preferred_input_layout
               THEN [hist EXCEPT !.switched = TRUE] ELSE hist
    /\ UNCHANGED <<user_keymaps, remapped_keys_json,
                   hidden__preferred_input_layout, hidden__preferred_target_layout,
                   is_emulation_active, allow_key_conflicts_in_input_layout>>

----------------------------------------------------------------------------
\* Translation algebra harness: the inputs of LayoutTranslation.__init__ are
\* drawn in the initial state, the actions apply the operations to them.

\* three reference-layout keys and one character that is no reference key
AlgLabelSeq == <<"A", "B", "C", "+">>
AlgLabels == {AlgLabelSeq[i] : i \in DOMAIN AlgLabelSeq}
AlgIndex(l) == CHOOSE i \in DOMAIN AlgLabelSeq : AlgLabelSeq[i] = l

\* every dict of at most n entries over the labels, in every insertion order
OrderedDicts(n) ==
    UNION {{d \in [1..k -> AlgLabels \X AlgLabels] : IsDict(d)} : k \in 0..n}
\* one insertion order per dict (the two-map constructor reads its maps by key
\* and builds a set, so the order of its inputs does not reach its result)
SortedDicts(n) ==
    {d \in OrderedDicts(n) :
        \A i, j \in DOMAIN d : i < j => AlgIndex(d[i][1]) < AlgIndex(d[j][1])}

AlgIdle ==
    /\ alg_in_out = <<>>
    /\ alg_out_in = Ellipsis
    /\ alg_op = "idle"
    /\ alg_t = identity
    /\ alg_res = identity
    /\ alg_x = "A"
    /\ alg_y = "A"
    /\ alg_z = "A"

AlgInit ==
    /\ \/ /\ alg_in_out \in OrderedDicts(MaxEntries)
          /\ alg_out_in = Ellipsis
       \/ /\ alg_in_out \in SortedDicts(MaxEntries)
          /\ alg_out_in \in SortedDicts(MaxEntries)
    /\ alg_op = "input"
    /\ alg_t = identity
    /\ alg_res = identity
    /\ alg_x = "A"
    /\ alg_y = "A"
    /\ alg_z = "A"

\* t = LayoutTranslation(in_out_dict[, out_in_dict])
AlgConstruct ==
    /\ alg_op = "input"
    /\ alg_t' = LayoutTranslation(alg_in_out, alg_out_in)
    /\ alg_op' = "built"
    /\ UNCHANGED <<alg_in_out, alg_out_in, alg_res, alg_x, alg_y, alg_z>>
    /\ UNCHANGED <<engine_vars, call_vars, reload_vars, addon_vars, panel_vars>>

\* y = t.map_input_to_output(x); z = t.map_output_to_input(y)
AlgRoundTrip ==
    /\ alg_op = "built"
    /\ \E x \in AlgLabels :
          /\ alg_x' = x
          /\ alg_y' = map_input_to_output(alg_t, x)
          /\ alg_z' = map_output_to_input(alg_t, map_input_to_output(alg_t, x))
    /\ alg_op' = "round_trip"
    /\ UNCHANGED <<alg_in_out, alg_out_in, alg_t, alg_res>>
    /\ UNCHANGED <<engine_vars, call_vars, reload_vars, addon_vars, panel_vars>>

\* res = LayoutTranslation.compose(t)
AlgComposeSingle ==
    /\ alg_op = "built"
    /\ alg_res' = compose(<<alg_t>>)
    /\ alg_op' = "compose_single"
    /\ UNCHANGED <<alg_in_out, alg_out_in, alg_t, alg_x, alg_y, alg_z>>
    /\ UNCHANGED <<engine_vars, call_vars, reload_vars, addon_vars, panel_vars>>

\* res = LayoutTranslation.compose()
AlgComposeEmpty ==
    /\ alg_op = "built"
    /\ alg_res' = compose(<<>>)
    /\ alg_op' = "compose_empty"
    /\ UNCHANGED <<alg_in_out, alg_out_in, alg_t, alg_x, alg_y, alg_z>>
    /\ UNCHANGED <<engine_vars, call_vars, reload_vars, addon_vars, panel_vars>>

\* res = LayoutTranslation.compose(t, LayoutTranslation.inverse(t));
\* y = res.map_input_to_output(x)
AlgComposeInverse ==
    /\ alg_op = "built"
    /\ alg_res' = compose(<<alg_t, inverse(alg_t)>>)
    /\ \E x \in AlgLabels :
          /\ alg_x' = x
          /\ alg_y' = map_input_to_output(compose(<<alg_t, inverse(alg_t)>>), x)
    /\ alg_op' = "compose_inverse"
    /\ UNCHANGED <<alg_in_out, alg_out_in, alg_t, alg_z>>
    /\ UNCHANGED <<engine_vars, call_vars, reload_vars, addon_vars, panel_vars>>

----------------------------------------------------------------------------
\* Calls of the pure functions of preferences.py on drawn inputs:
\* call_op names the function ("idle" before any), call_args holds its
\* arguments, call_res its result once the call was made (call_done)

CallIdle ==
    /\ call_op = "idle"
    /\ call_args = <<>>
    /\ call_res = <<>>
    /\ call_done = FALSE

\* the keymap items handed to resolve_remapped_keymap_item
ResolveItems ==
    { [Kmi("view3d.a", type, "KEYBOARD", ctrl, properties) EXCEPT !.value = value] :
        type \in {"Y", "Z"}, ctrl \in {0, 1},
        properties \in {None, Some(<< <<"name", JStr("x")>> >>)},
        value \in {"PRESS", "RELEASE"} }

\* the journal candidates (fingerprint, diff) of one operator
ResolveCandidates ==
    { <<KmiFingerprint_from_kmi(Kmi("view3d.a", "Y", "KEYBOARD", 0, properties)),
        [modifiers |-> modifiers, source_char |-> source_char,
         target_char |-> target_char, value |-> "PRESS"]>> :
        properties \in {None, Some(<< <<"name", JStr("x")>> >>)},
        modifiers \in {<<>>, <<"^">>},
        source_char \in {"Y", "Z"}, target_char \in {"Y", "Z"} }

CallInitResolve ==
    /\ call_op = "resolve_remapped_keymap_item"
    /\ call_args \in ResolveItems
                     \X UNION {[1..n -> ResolveCandidates] : n \in 0..MaxCandidates}
    /\ call_res = <<>>
    /\ call_done = FALSE

\* rs = resolve_remapped_keymap_item(kmi, per_op_kmi): the index of the
\* candidate returned, 0 for None
CallResolve ==
    /\ call_op = "resolve_remapped_keymap_item" /\ ~call_done
    /\ call_res' = resolve_remapped_keymap_item(call_args[1], call_args[2])
    /\ call_done' = TRUE
    /\ UNCHANGED <<call_op, call_args>>
    /\ UNCHANGED <<engine_vars, alg_vars, reload_vars, addon_vars, panel_vars>>

\* the texts found in the two persisted string properties: empty, no JSON,
\* JSON of another shape, and JSON of the shape the setters write
PersistedTexts ==
    << EmptyText, MalformedText,
       JsonText(JNull), JsonText(JStr("x")), JsonText(JInt(1)),
       JsonText(JList(<<>>)), JsonText(JList(<< JStr("x") >>)), JsonText(JObj(<<>>)),
       JsonText(JObj(<< <<"L", JObj(<< <<"Y", JStr("Z")>> >>)>> >>)),
       JsonText(JObj(<< <<"L", JStr("x")>>, <<"QWERTZ", JObj(<<>>)>> >>)),
       JsonText(JObj(<< <<"VIEW_3D", JObj(<< <<"view3d.a", JList(<< JStr("x") >>)>> >>)>> >>)),
       JsonText(JObj(<< <<"VIEW_3D",
                JObj(<< <<"view3d.a",
                          JList(<< JList(<< JList(<<>>),
                                            JList(<< JStr("Y"), JStr("Z") >>) >>) >>)>> >>)>> >>)) >>

CallInitRead ==
    /\ call_op \in {"custom_layouts", "remapped_keys"}
    /\ \E n \in DOMAIN PersistedTexts : call_args = << PersistedTexts[n] >>
    /\ call_res = <<>>
    /\ call_done = FALSE

\* prefs.custom_layouts read while custom_layouts_json holds the text
CallReadCustomLayouts ==
    /\ call_op = "custom_layouts" /\ ~call_done
    /\ call_res' = custom_layouts_get(call_args[1])
    /\ call_done' = TRUE
    /\ UNCHANGED <<call_op, call_args>>
    /\ UNCHANGED <<engine_vars, alg_vars, reload_vars, addon_vars, panel_vars>>

\* prefs.remapped_keys read while remapped_keys_json holds the text
CallReadRemappedKeys ==
    /\ call_op = "remapped_keys" /\ ~call_done
    /\ call_res' = remapped_keys_get(call_args[1])
    /\ call_done' = TRUE
    /\ UNCHANGED <<call_op, call_args>>
    /\ UNCHANGED <<engine_vars, alg_vars, reload_vars, addon_vars, panel_vars>>

\* the code point of a label: the order of json.dump(..., sort_keys=True)
CodePoint(l) == CASE l = "+" -> 43 [] l = "A" -> 65 [] l = "B" -> 66 [] l = "C" -> 67

\* the items of a dict in the order sort_keys writes them
RECURSIVE sort_keys(_)
sort_keys(d) ==
    IF d = <<>> THEN <<>>
    ELSE LET m == CHOOSE i \in DOMAIN d :
                     \A j \in DOMAIN d : CodePoint(d[i][1]) <= CodePoint(d[j][1])
         IN  <<d[m]>> \o sort_keys(SelectSeq(d, LAMBDA p : p[1] # d[m][1]))

\* WM_OT_kle_export_layout_json.execute on the Translation of the layout:
\* the object the file holds, json.dump(translation.in_out_dict, sort_keys=True)
export_layout_json(translation) == sort_keys(translation.in_out)

\* WM_OT_kle_import_layout_json.execute on a file that holds the object
\* data: the mapping stored by set_custom_layout (str(k) -> str(v) in the
\* order of data.items()), then the Translation get_layout_translation
\* builds from it
import_layout_json(data) == from_dict(data, Ellipsis)

\* a stored custom layout: physical key -> character, in the insertion order
\* of the stored object
CallInitExportImport ==
    /\ call_op = "export_import"
    /\ call_args \in {<<layout>> : layout \in OrderedDicts(MaxEntries)}
    /\ call_res = <<>>
    /\ call_done = FALSE

\* the layout is exported, and the file is imported under a layout name
CallExportImport ==
    /\ call_op = "export_import" /\ ~call_done
    /\ call_res' = [exported |-> from_dict(call_args[1], Ellipsis),
                    imported |-> import_layout_json(
                                    export_layout_json(from_dict(call_args[1], Ellipsis)))]
    /\ call_done' = TRUE
    /\ UNCHANGED <<call_op, call_args>>
    /\ UNCHANGED <<engine_vars, alg_vars, reload_vars, addon_vars, panel_vars>>

InitCalls ==
    /\ EngineInit /\ AlgIdle /\ ReloadIdle /\ AddonIdle /\ PanelIdle
    /\ (CallInitResolve \/ CallInitRead \/ CallInitExportImport)

NextCalls ==
    \/ CallResolve
    \/ CallReadCustomLayouts
    \/ CallReadRemappedKeys
    \/ CallExportImport

SpecCalls == InitCalls /\ [][NextCalls]_vars

InitAlgebra == AlgInit /\ EngineInit /\ CallIdle /\ ReloadIdle /\ AddonIdle /\ PanelIdle

NextAlgebra ==
    \/ AlgConstruct
    \/ AlgRoundTrip
    \/ AlgComposeSingle
    \/ AlgComposeEmpty
    \/ AlgComposeInverse

SpecAlgebra == InitAlgebra /\ [][NextAlgebra]_vars

\* the remap engine
Init == EngineInit /\ AlgIdle /\ CallIdle /\ ReloadIdle /\ AddonIdle /\ PanelIdle

Next ==
    \/ \E k \in DOMAIN user_keymaps : \E item \in HostItemsOf(k) :
          HostAddKeymapItem(k, item) /\ UNCHANGED <<alg_vars, call_vars, reload_vars, addon_vars, panel_vars>>
    \/ ApplyOperator /\ UNCHANGED <<alg_vars, call_vars, reload_vars, addon_vars, panel_vars>>
    \/ on_reapply_requested /\ UNCHANGED <<alg_vars, call_vars, reload_vars, addon_vars, panel_vars>>
    \/ RevertOperator /\ UNCHANGED <<alg_vars, call_vars, reload_vars, addon_vars, panel_vars>>
    \/ \E name \in SelectableLayouts : SelectInputLayout(name) /\ UNCHANGED <<alg_vars, call_vars, reload_vars, addon_vars, panel_vars>>
    \/ ToggleAllowKeyConflicts /\ UNCHANGED <<alg_vars, call_vars, reload_vars, addon_vars, panel_vars>>
    \/ \E name \in CustomLayoutNames : AddCustomLayout(name) /\ UNCHANGED <<alg_vars, call_vars, reload_vars, addon_vars, panel_vars>>
    \/ \E layout \in CustomLayoutNames, physical \in EditedPhysicalKeys,
          mapped \in CapturedChars :
          CaptureKeyForMapping(layout, physical, mapped) /\ UNCHANGED <<alg_vars, call_vars, reload_vars, addon_vars, panel_vars>>

Spec == Init /\ [][Next]_vars

----------------------------------------------------------------------------
\* The engine with imported layouts: the user imports layout files whose
\* characters need not be characters of a host event type

\* the mappings of the files the user imports (data.items(), in file order)
ImportedFiles ==
    { << <<"Y", "?">> >>,
      << <<"Z", "Y">>, <<"Y", "?">> >>,
      << <<"Y", "Z">>, <<"Z", "Y">> >> }

\* WM_OT_kle_import_layout_json.execute with a file that holds the object
\* data: the layout is stored under layout_name and selected as input layout
ImportLayout(layout_name, data) ==
    /\ ~is_built_in_layout(layout_name)
    /\ is_layout_editable(layout_name) /\ ~is_emulation_active
    /\ custom_layouts_json' = set_custom_layout(layout_name, data)
    /\ hidden__preferred_input_layout' = layout_name
    /\ last' = Configured
    /\ hist' = IF Engaged /\ (layout_name # preferred_input_layout
                              \/ get_custom_layout(layout_name) # Some(data))
               THEN [hist EXCEPT !.switched = TRUE] ELSE hist
    /\ UNCHANGED <<user_keymaps, remapped_keys_json,
                   hidden__preferred_target_layout, is_emulation_active,
                   allow_key_conflicts_in_input_layout>>

\* (mutant) the raise of the two editing methods without the lock of an
\* active emulation
edit_raises_IgnoresLock(name) == is_built_in_layout(name)

\* the two raises that open set_custom_layout and update_layout_key:
\* ValueError for a built-in name and for a layout that is not editable
edit_raises(name) == is_built_in_layout(name) \/ ~is_layout_editable(name)

\* the layout names handed to the two editing methods
EditedLayoutNames == {"QWERTZ", "L"}

\* a call of KLEPreferences.set_custom_layout(name, layout)
SetCustomLayout(name, layout) ==
    /\ custom_layouts_json' = IF edit_raises(name) THEN custom_layouts_json
                              ELSE set_custom_layout(name, layout)
    /\ last' = Observed("edit", ~edit_raises(name), 0, 0, "other")
    /\ hist' = IF ~edit_raises(name) /\ Engaged /\ name = preferred_input_layout
                  /\ get_custom_layout(name) # Some(layout)
               THEN [hist EXCEPT !.switched = TRUE] ELSE hist
    /\ UNCHANGED <<user_keymaps, remapped_keys_json,
                   hidden__preferred_input_layout, hidden__preferred_target_layout,
                   is_emulation_active, allow_key_conflicts_in_input_layout>>

\* a call of KLEPreferences.update_layout_key(name, us_qwerty_key, new_key):
\* past the two raises it raises for a name that is no stored layout, else
\* it stores the layout with the key set
UpdateLayoutKey(name, us_qwerty_key, new_key) ==
    /\ custom_layouts_json' =
          IF edit_raises(name) \/ get_custom_layout(name) = None
          THEN custom_layouts_json
          ELSE set_custom_layout(name,
                   DictSet(get_custom_layout(name)[1], us_qwerty_key, new_key))
    /\ last' = Observed("edit",
                        ~(edit_raises(name) \/ get_custom_layout(name) = None),
                        0, 0, "other")
    /\ hist' = IF ~edit_raises(name) /\ Engaged /\ name = preferred_input_layout
                  /\ get_custom_layout(name) # None
               THEN [hist EXCEPT !.switched = TRUE] ELSE hist
    /\ UNCHANGED <<user_keymaps, remapped_keys_json,
                   hidden__preferred_input_layout, hidden__preferred_target_layout,
                   is_emulation_active, allow_key_conflicts_in_input_layout>>

\* the host gives the first keymap the plain items on Y and Z of either
\* operator, the second keymap none
ImportHostItems ==
    {item \in HostItems : /\ item.type \in {"Y", "Z"}
                          /\ item.ctrl = 0 /\ item.properties = None}
    \cup {Kmi("view3d.b", "Z", "KEYBOARD", 0, None)}

InitImport == EngineInit /\ AlgIdle /\ CallIdle /\ ReloadIdle /\ AddonIdle /\ PanelIdle

NextImport ==
    \/ \E item \in ImportHostItems :
          HostAddKeymapItem(1, item) /\ UNCHANGED <<alg_vars, call_vars, reload_vars, addon_vars, panel_vars>>
    \/ \E layout_name \in CustomLayoutNames, data \in ImportedFiles :
          ImportLayout(layout_name, data) /\ UNCHANGED <<alg_vars, call_vars, reload_vars, addon_vars, panel_vars>>
    \/ \E name \in EditedLayoutNames, layout \in ImportedFiles :
          SetCustomLayout(name, layout) /\ UNCHANGED <<alg_vars, call_vars, reload_vars, addon_vars, panel_vars>>
    \/ \E name \in EditedLayoutNames, us_qwerty_key \in EditedPhysicalKeys,
          new_key \in CapturedChars :
          UpdateLayoutKey(name, us_qwerty_key, new_key) /\ UNCHANGED <<alg_vars, call_vars, reload_vars, addon_vars, panel_vars>>
    \/ ApplyOperator /\ UNCHANGED <<alg_vars, call_vars, reload_vars, addon_vars, panel_vars>>
    \/ on_reapply_requested /\ UNCHANGED <<alg_vars, call_vars, reload_vars, addon_vars, panel_vars>>
    \/ RevertOperator /\ UNCHANGED <<alg_vars, call_vars, reload_vars, addon_vars, panel_vars>>

SpecImport == InitImport /\ [][NextImport]_vars

----------------------------------------------------------------------------
\* event_handlers.py: reapply on reload.  bpy.app.timers holds the functions
\* registered and not yet run, in the order of their registration; a timer
\* is [first_interval, for_reload].  Both lambdas return None, so a timer
\* runs once.

Timer(first_interval, for_reload) ==
    [first_interval |-> first_interval, for_reload |-> for_reload]

\* the values the user gives reapply_on_reload_delay (min=0.0)
ReloadDelays == {0, 3}

\* (mutant) the second timer registered whatever the delay
maybe_reapply_translation_deferred_AlwaysTwice(for_reload) ==
    IF is_emulation_active /\ reapply_on_reload
    THEN << Timer(0, for_reload), Timer(reapply_on_reload_delay, for_reload) >>
    ELSE <<>>

\* maybe_reapply_translation_deferred(for_reload): the timers it registers
maybe_reapply_translation_deferred(for_reload) ==
    IF is_emulation_active /\ reapply_on_reload
    THEN IF reapply_on_reload_delay > 0
         THEN << Timer(0, for_reload), Timer(reapply_on_reload_delay, for_reload) >>
         ELSE << Timer(0, for_reload) >>
    ELSE <<>>

\* on_load_post: a file was loaded.  The host has dropped the timers that
\* were pending (they are not registered as persistent)
on_load_post ==
    /\ timers' = maybe_reapply_translation_deferred(TRUE)
    /\ last' = Observed("load", TRUE, 0, 0, "other")
    /\ UNCHANGED <<user_keymaps, remapped_keys_json, custom_layouts_json,
                   hidden__preferred_input_layout, hidden__preferred_target_layout,
                   is_emulation_active, allow_key_conflicts_in_input_layout, hist,
                   reapply_on_reload, reapply_on_reload_delay>>

\* register(): the add-on is registered (enabled, or the host starts with the
\* persisted preferences)
register ==
    /\ Len(timers) + 2 <= MaxTimers
    /\ timers' = timers \o maybe_reapply_translation_deferred(TRUE)
    /\ last' = Observed("register", TRUE, 0, 0, "other")
    /\ UNCHANGED <<user_keymaps, remapped_keys_json, custom_layouts_json,
                   hidden__preferred_input_layout, hidden__preferred_target_layout,
                   is_emulation_active, allow_key_conflicts_in_input_layout, hist,
                   reapply_on_reload, reapply_on_reload_delay>>

\* timers without timer i
RemoveTimer(i) == [j \in 1..(Len(timers) - 1) |-> IF j < i THEN timers[j] ELSE timers[j + 1]]

\* (mutant) the callback does not test is_emulation_active
TimerFires_IgnoresActive(i) ==
    /\ \A j \in 1..(i - 1) : timers[j].first_interval > timers[i].first_interval
    /\ timers' = RemoveTimer(i)
    /\ IF timers[i].for_reload /\ ~reapply_on_reload
       THEN /\ last' = Observed("timer", TRUE, 0, 0, "other")
            /\ UNCHANGED <<user_keymaps, remapped_keys_json, hist>>
       ELSE Pass
    /\ UNCHANGED <<custom_layouts_json, hidden__preferred_input_layout,
                   hidden__preferred_target_layout, is_emulation_active,
                   allow_key_conflicts_in_input_layout,
                   reapply_on_reload, reapply_on_reload_delay>>

\* the host runs timer i, which is due: no timer registered before it has an
\* interval as short.  It runs maybe_reapply_translation(for_reload), which
\* returns at once or runs one apply pass
TimerFires(i) ==
    /\ \A j \in 1..(i - 1) : timers[j].first_interval > timers[i].first_interval
    /\ timers' = RemoveTimer(i)
    /\ IF ~is_emulation_active \/ (timers[i].for_reload /\ ~reapply_on_reload)
       THEN /\ last' = Observed("timer", TRUE, 0, 0, "other")
            /\ UNCHANGED <<user_keymaps, remapped_keys_json, hist>>
       ELSE Pass
    /\ UNCHANGED <<custom_layouts_json, hidden__preferred_input_layout,
                   hidden__preferred_target_layout, is_emulation_active,
                   allow_key_conflicts_in_input_layout,
                   reapply_on_reload, reapply_on_reload_delay>>

\* the user flips the reapply_on_reload checkbox
ToggleReapplyOnReload ==
    /\ reapply_on_reload' = ~reapply_on_reload
    /\ last' = Configured
    /\ UNCHANGED <<user_keymaps, remapped_keys_json, custom_layouts_json,
                   hidden__preferred_input_layout, hidden__preferred_target_layout,
                   is_emulation_active, allow_key_conflicts_in_input_layout, hist,
                   reapply_on_reload_delay, timers>>

\* the user sets reapply_on_reload_delay
SetReapplyOnReloadDelay(delay) ==
    /\ delay # reapply_on_reload_delay
    /\ reapply_on_reload_delay' = delay
    /\ last' = Configured
    /\ UNCHANGED <<user_keymaps, remapped_keys_json, custom_layouts_json,
                   hidden__preferred_input_layout, hidden__preferred_target_layout,
                   is_emulation_active, allow_key_conflicts_in_input_layout, hist,
                   reapply_on_reload, timers>>

\* the host gives the first keymap the plain items of view3d.a on Y and Z
ReloadHostItems == HostItemsOf(2)

InitReload == EngineInit /\ AlgIdle /\ CallIdle /\ ReloadIdle /\ AddonIdle /\ PanelIdle

NextReload ==
    \/ \E item \in ReloadHostItems :
          HostAddKeymapItem(1, item) /\ UNCHANGED <<alg_vars, call_vars, reload_vars, addon_vars, panel_vars>>
    \/ SelectInputLayout("QWERTZ") /\ UNCHANGED <<alg_vars, call_vars, reload_vars, addon_vars, panel_vars>>
    \/ ApplyOperator /\ UNCHANGED <<alg_vars, call_vars, reload_vars, addon_vars, panel_vars>>
    \/ RevertOperator /\ UNCHANGED <<alg_vars, call_vars, reload_vars, addon_vars, panel_vars>>
    \/ ToggleReapplyOnReload /\ UNCHANGED <<alg_vars, call_vars, addon_vars, panel_vars>>
    \/ \E delay \in ReloadDelays :
          SetReapplyOnReloadDelay(delay) /\ UNCHANGED <<alg_vars, call_vars, addon_vars, panel_vars>>
    \/ on_load_post /\ UNCHANGED <<alg_vars, call_vars, addon_vars, panel_vars>>
    \/ register /\ UNCHANGED <<alg_vars, call_vars, addon_vars, panel_vars>>
    \/ \E i \in DOMAIN timers : TimerFires(i) /\ UNCHANGED <<alg_vars, call_vars, addon_vars, panel_vars>>

SpecReload == InitReload /\ [][NextReload]_vars

----------------------------------------------------------------------------
\* ui.py: add-on change detection.  The draw hooks of the add-ons panels call
\* on_addon_menu_draw_call; the poll runs in it or on a timer of its own.
\* drawn_since_poll is _last_addons_prefs_poll_time <
\* _last_addons_prefs_draw_time; the poll timer is pending exactly while
\* addon_check_scheduled (no file is loaded in this specification).

\* the sets of active add-ons the host goes through
AddonSets == { {"keyboard_layout_emulation"}, {"keyboard_layout_emulation", "other"} }
\* the values of detect_addon_changes_polling_interval (min=0.0)
PollIntervals == {0, 1}

\* on_addons_set_change(): the timers after it
on_addons_set_change == timers \o maybe_reapply_translation_deferred(FALSE)

\* addon_changes_poll(): the first poll records the set; a later poll that
\* finds another set records it and calls on_addons_set_change
addon_changes_poll ==
    /\ last_active_addons_set' = IF last_active_addons_set = {} THEN addons
                                 ELSE IF last_active_addons_set # addons THEN addons
                                 ELSE last_active_addons_set
    /\ timers' = IF last_active_addons_set # {} /\ last_active_addons_set # addons
                 THEN on_addons_set_change ELSE timers
    /\ last' = Observed("poll", TRUE, 0, 0, "other")

\* on_addon_menu_draw_call while the preference holds poll_interval
on_addon_menu_draw_call(poll_interval) ==
    /\ detect_addon_changes /\ is_emulation_active
    /\ Len(timers) + 2 <= MaxTimers
    /\ IF poll_interval <= 0
       THEN /\ addon_changes_poll
            /\ UNCHANGED <<addon_check_scheduled, drawn_since_poll>>
       ELSE /\ addon_check_scheduled' = TRUE
            /\ drawn_since_poll' = addon_check_scheduled
            /\ last' = Observed("draw", TRUE, 0, 0, "other")
            /\ UNCHANGED <<last_active_addons_set, timers>>
    /\ UNCHANGED <<user_keymaps, remapped_keys_json, custom_layouts_json,
                   hidden__preferred_input_layout, hidden__preferred_target_layout,
                   is_emulation_active, allow_key_conflicts_in_input_layout, hist,
                   reapply_on_reload, reapply_on_reload_delay,
                   detect_addon_changes, addons>>

\* scheduled_addon_changes_poll: the poll timer runs
scheduled_addon_changes_poll ==
    /\ addon_check_scheduled
    /\ Len(timers) + 2 <= MaxTimers
    /\ addon_check_scheduled' = drawn_since_poll
    /\ drawn_since_poll' = FALSE
    /\ addon_changes_poll
    /\ UNCHANGED <<user_keymaps, remapped_keys_json, custom_layouts_json,
                   hidden__preferred_input_layout, hidden__preferred_target_layout,
                   is_emulation_active, allow_key_conflicts_in_input_layout, hist,
                   reapply_on_reload, reapply_on_reload_delay,
                   detect_addon_changes, addons>>

\* the user enables or disables another add-on
HostAddonsChange(set) ==
    /\ set # addons
    /\ addons' = set
    /\ last' = Configured
    /\ UNCHANGED <<user_keymaps, remapped_keys_json, custom_layouts_json,
                   hidden__preferred_input_layout, hidden__preferred_target_layout,
                   is_emulation_active, allow_key_conflicts_in_input_layout, hist,
                   reload_vars, detect_addon_changes, last_active_addons_set,
                   addon_check_scheduled, drawn_since_poll>>

\* the user flips the detect_addon_changes checkbox
ToggleDetectAddonChanges ==
    /\ detect_addon_changes' = ~detect_addon_changes
    /\ last' = Configured
    /\ UNCHANGED <<user_keymaps, remapped_keys_json, custom_layouts_json,
                   hidden__preferred_input_layout, hidden__preferred_target_layout,
                   is_emulation_active, allow_key_conflicts_in_input_layout, hist,
                   reload_vars, addons, last_active_addons_set,
                   addon_check_scheduled, drawn_since_poll>>

\* the host gives the first keymap the plain item of view3d.a on Y
AddonHostItems == {Kmi("view3d.a", "Y", "KEYBOARD", 0, None)}

InitAddons == EngineInit /\ AlgIdle /\ CallIdle /\ ReloadIdle /\ AddonIdle /\ PanelIdle

NextAddons ==
    \/ \E item \in AddonHostItems :
          HostAddKeymapItem(1, item) /\ UNCHANGED <<alg_vars, call_vars, reload_vars, addon_vars, panel_vars>>
    \/ SelectInputLayout("QWERTZ") /\ UNCHANGED <<alg_vars, call_vars, reload_vars, addon_vars, panel_vars>>
    \/ ApplyOperator /\ UNCHANGED <<alg_vars, call_vars, reload_vars, addon_vars, panel_vars>>
    \/ RevertOperator /\ UNCHANGED <<alg_vars, call_vars, reload_vars, addon_vars, panel_vars>>
    \/ ToggleReapplyOnReload /\ UNCHANGED <<alg_vars, call_vars, addon_vars, panel_vars>>
    \/ ToggleDetectAddonChanges /\ UNCHANGED <<alg_vars, call_vars, panel_vars>>
    \/ \E set \in AddonSets : HostAddonsChange(set) /\ UNCHANGED <<alg_vars, call_vars, panel_vars>>
    \/ \E poll_interval \in PollIntervals :
          on_addon_menu_draw_call(poll_interval) /\ UNCHANGED <<alg_vars, call_vars, panel_vars>>
    \/ scheduled_addon_changes_poll /\ UNCHANGED <<alg_vars, call_vars, panel_vars>>
    \/ \E i \in DOMAIN timers : TimerFires(i) /\ UNCHANGED <<alg_vars, call_vars, addon_vars, panel_vars>>

SpecAddons == InitAddons /\ [][NextAddons]_vars

----------------------------------------------------------------------------
\* Claims on the remap engine (checked under Spec)

\* C1 as stated: when the apply pass runs twice in succession under a valid
\* Translation with no host change in between, the second run leaves the
\* Journal as the first left it, mutates no binding, and the plan computed
\* for it (pending_keymaps_to_emulate) is empty.
C1_ApplyIdempotent ==
    [][(/\ last.op = "pass" /\ last.ok
        /\ last'.op = "pass"
        /\ is_valid(get_preferred_layout_translation))
       => (/\ remapped_keys(remapped_keys_json') = remapped_keys(remapped_keys_json)
           /\ user_keymaps' = user_keymaps
           /\ pending_keymaps_to_emulate = <<>>)]_vars

\* C2 as stated: Revert restores every binding that Apply remapped to its
\* pre-Apply trigger character and leaves the Journal empty, whatever the
\* Translation selected at the time of the Revert.
C2_RevertRestoresWhateverTranslation ==
    [][last'.op = "revert"
       => (/\ remapped_keys(remapped_keys_json') = <<>>
           /\ \A k \in DOMAIN user_keymaps : \A i \in DOMAIN user_keymaps[k].keymap_items :
                 user_keymaps[k].keymap_items[i].g_applied = 1
                 => user_keymaps'[k].keymap_items[i].type
                       = user_keymaps[k].keymap_items[i].g_orig)]_vars

\* C3 as stated: a binding whose trigger character no apply pass has changed
\* keeps it across revert_keymap_translation.
C3_RevertLeavesUnremappedBindings ==
    [][(last'.op = "revert" /\ ~hist.reverted)
       => \A k \in DOMAIN user_keymaps : \A i \in DOMAIN user_keymaps[k].keymap_items :
             user_keymaps[k].keymap_items[i].g_applied = 0
             => user_keymaps'[k].keymap_items[i].type
                   = user_keymaps[k].keymap_items[i].type]_vars

\* C4 as stated: over apply passes interleaved with the host adding bindings,
\* with no revert and the Translation unchanged, every binding's trigger
\* character is its original one or translation.map_forward(original), and
\* no binding is forward-mapped more than once.
C4_NoBindingRemappedTwice ==
    (~hist.reverted /\ ~hist.switched)
    => \A k \in DOMAIN user_keymaps : \A i \in DOMAIN user_keymaps[k].keymap_items :
          LET kmi == user_keymaps[k].keymap_items[i]
          IN  /\ kmi.g_applied <= 1
              /\ kmi.type \in {kmi.g_orig,
                               map_input_type_to_output_type(
                                   get_preferred_layout_translation, kmi.g_orig)}

\* C5 as stated: when the host adds a remappable binding after a successful
\* apply pass, the next apply pass remaps it: its trigger character becomes
\* map_forward of its character.
C5_ReapplyPicksUpAddedBindings ==
    [][(/\ last.op = "host_add" /\ last.pre = "add"
        /\ last'.op = "pass" /\ last'.ok
        /\ is_remappable_keymap_item(
               user_keymaps[last.km].keymap_items[Len(user_keymaps[last.km].keymap_items)],
               get_preferred_layout_translation))
       => user_keymaps'[last.km].keymap_items[Len(user_keymaps[last.km].keymap_items)].type
             = map_input_type_to_output_type(
                   get_preferred_layout_translation,
                   user_keymaps[last.km].keymap_items[
                       Len(user_keymaps[last.km].keymap_items)].type)]_vars

\* C6: when the Translation has conflicts and conflict tolerance is off, the
\* apply pass returns failure and leaves the Journal text and every binding
\* as they were before the call.
C6_InvalidTranslationRefused ==
    [][(/\ last'.op = "pass"
        /\ ~is_valid(get_preferred_layout_translation)
        /\ ~allow_key_conflicts_in_input_layout)
       => (/\ ~last'.ok
           /\ user_keymaps' = user_keymaps
           /\ remapped_keys_json' = remapped_keys_json)]_vars

\* C6 witness: an apply pass has just refused a Translation with conflicts
\* while a binding it would remap is present.
C6_Witness ==
    /\ last.op = "pass" /\ ~last.ok
    /\ ~is_valid(get_preferred_layout_translation)
    /\ ~allow_key_conflicts_in_input_layout
    /\ pending_keymaps_to_emulate # <<>>

\* C7 as stated: with conflict tolerance enabled, a Revert that follows an
\* Apply under the same Translation with conflicts restores every binding
\* that Apply remapped to its recorded source character.
C7_InvalidTranslationNeverDefeatsRevert ==
    [][(/\ last'.op = "revert"
        /\ last.op = "pass" /\ last.ok
        /\ ~hist.switched
        /\ allow_key_conflicts_in_input_layout
        /\ ~is_valid(get_preferred_layout_translation))
       => \A k \in DOMAIN user_keymaps : \A i \in DOMAIN user_keymaps[k].keymap_items :
             user_keymaps[k].keymap_items[i].g_applied = 1
             => user_keymaps'[k].keymap_items[i].type
                   = user_keymaps[k].keymap_items[i].g_orig]_vars

----------------------------------------------------------------------------
\* Claims on the translation algebra (checked under SpecAlgebra)

\* C8 as stated: for every Translation t and every label x that is not in
\* t's conflicts, t.map_output_to_input(t.map_input_to_output(x)) == x.
C8_RoundTripOutsideConflicts ==
    (alg_op = "round_trip" /\ alg_x \notin conflicting_keys(alg_t))
        => alg_z = alg_x

\* C8 amended: the round trip returns x for every label x that t remaps
\* (x is a key of the forward map) when neither x nor its image
\* t.map_input_to_output(x) is in t's conflicts.
C8_RoundTripOfRemappedLabels ==
    (/\ alg_op = "round_trip"
     /\ alg_x \in remapped_input_characters(alg_t)
     /\ alg_x \notin conflicting_keys(alg_t)
     /\ alg_y \notin conflicting_keys(alg_t))
        => alg_z = alg_x

\* C8 witness: a round trip of a remapped, conflict-free label through a
\* Translation that has conflicts elsewhere.
C8_Witness ==
    /\ alg_op = "round_trip"
    /\ alg_x \in remapped_input_characters(alg_t)
    /\ ~is_valid(alg_t)
    /\ alg_x \notin conflicting_keys(alg_t)
    /\ alg_y \notin conflicting_keys(alg_t)
    /\ alg_y # alg_x
    /\ alg_z = alg_x

\* the same forward map, the same backward map (as Python dicts compare)
SameMaps(a, b) == DictEq(a.in_out, b.in_out) /\ DictEq(a.out_in, b.out_in)

\* C9 as stated: compose([t]) has the forward map, the backward map and the
\* conflicts of t, and compose([]) is the identity Translation.
C9_ComposeSingleEqualsT ==
    /\ alg_op = "compose_single" =>
          /\ SameMaps(alg_res, alg_t)
          /\ conflicting_keys(alg_res) = conflicting_keys(alg_t)
    /\ alg_op = "compose_empty" => (is_identity(alg_res) /\ is_valid(alg_res))

\* C9 amended: compose([t]) has the forward map, the backward map and the
\* validity of t; its conflicts are those of t when t was built from a forward
\* and a backward map (for a forward-only t they are recomputed by the two-map
\* rule and may name other labels); compose([]) is the identity Translation.
C9_ComposeSingleSameMapsAndValidity ==
    /\ alg_op = "compose_single" =>
          /\ SameMaps(alg_res, alg_t)
          /\ is_valid(alg_res) = is_valid(alg_t)
          /\ alg_out_in # Ellipsis =>
                conflicting_keys(alg_res) = conflicting_keys(alg_t)
    /\ alg_op = "compose_empty" => (is_identity(alg_res) /\ is_valid(alg_res))

\* C9 witness: compose([t]) of a non-identity forward-only t with conflicts.
C9_Witness ==
    /\ alg_op = "compose_single"
    /\ alg_out_in = Ellipsis
    /\ ~is_identity(alg_t)
    /\ ~is_valid(alg_t)
    /\ ~is_valid(alg_res)

\* C10 as stated: compose([t, invert(t)]) maps every label that is not in
\* its conflicts to itself in the forward direction.
C10_ComposeWithInverseFixesLabels ==
    (alg_op = "compose_inverse" /\ alg_x \notin conflicting_keys(alg_res))
        => alg_y = alg_x

\* C10 amended: for every Translation t that was built from a forward map
\* alone, or that is valid, compose([t, invert(t)]) maps every label that is
\* not in its conflicts to itself in the forward direction.
C10_ComposeWithInverseOfConsistentT ==
    (/\ alg_op = "compose_inverse"
     /\ alg_x \notin conflicting_keys(alg_res)
     /\ (alg_out_in = Ellipsis \/ is_valid(alg_t)))
        => alg_y = alg_x

\* C10 witness: a label that t remaps, mapped to itself by the composition.
C10_Witness ==
    /\ alg_op = "compose_inverse"
    /\ alg_out_in = Ellipsis
    /\ alg_x \in remapped_input_characters(alg_t)
    /\ alg_x \notin conflicting_keys(alg_res)
    /\ alg_y = alg_x

----------------------------------------------------------------------------
\* C11 (checked under SpecAlgebra)

\* C11 as stated: in forward-only construction, when two distinct physical
\* labels map to the same substituted label s, s is in conflicts and
\* backward[s] is the physical label that came first in insertion order.
C11_FirstWriterWins ==
    (alg_op = "built" /\ alg_out_in = Ellipsis)
    => \A i, j \in DOMAIN alg_t.in_out :
          (i < j /\ alg_t.in_out[i][2] = alg_t.in_out[j][2]
                 /\ \A h \in 1..(i - 1) : alg_t.in_out[h][2] # alg_t.in_out[i][2])
          => /\ alg_t.in_out[i][2] \in conflicting_keys(alg_t)
             /\ DictHas(alg_t.out_in, alg_t.in_out[i][2])
             /\ map_output_to_input(alg_t, alg_t.in_out[i][2]) = alg_t.in_out[i][1]

\* C11 amended: in forward-only construction, when two distinct physical
\* labels map to the same substituted label s, s is in conflicts; backward[s]
\* is the physical label that came first in insertion order when s is not a
\* physical key left unremapped, and backward has no entry for s when it is
\* (the key s itself is then the first writer).
C11_FirstWriterWinsUnlessPhysical ==
    (alg_op = "built" /\ alg_out_in = Ellipsis)
    => \A i, j \in DOMAIN alg_t.in_out :
          (i < j /\ alg_t.in_out[i][2] = alg_t.in_out[j][2]
                 /\ \A h \in 1..(i - 1) : alg_t.in_out[h][2] # alg_t.in_out[i][2])
          => /\ alg_t.in_out[i][2] \in conflicting_keys(alg_t)
             /\ IF /\ alg_t.in_out[i][2] \in us_qwerty_physical_remappable_keys
                   /\ ~DictHas(alg_t.in_out, alg_t.in_out[i][2])
                THEN ~DictHas(alg_t.out_in, alg_t.in_out[i][2])
                ELSE /\ DictHas(alg_t.out_in, alg_t.in_out[i][2])
                     /\ map_output_to_input(alg_t, alg_t.in_out[i][2])
                           = alg_t.in_out[i][1]

\* C11 witness: two physical labels mapped to one substituted label that is
\* not a physical key; the first of them is its backward image.
C11_Witness ==
    /\ alg_op = "built" /\ alg_out_in = Ellipsis
    /\ Len(alg_t.in_out) = 2
    /\ alg_t.in_out[1][2] = alg_t.in_out[2][2]
    /\ alg_t.in_out[1][2] \notin us_qwerty_physical_remappable_keys
    /\ alg_t.in_out[1][2] \in conflicting_keys(alg_t)
    /\ map_output_to_input(alg_t, alg_t.in_out[1][2]) = alg_t.in_out[1][1]
    /\ AlgIndex(alg_t.in_out[1][1]) > AlgIndex(alg_t.in_out[2][1])

----------------------------------------------------------------------------
\* Claims on resolve_remapped_keymap_item (checked under SpecCalls)

\* C12: when more than one candidate has a fingerprint equal to the binding's,
\* resolve returns the only such candidate whose target_char is the binding's
\* character when there is exactly one, otherwise the only one whose
\* source_char is that character when there is exactly one; so against two
\* candidates whose diffs differ only in target_char, a binding on one of the
\* two target characters is matched to the candidate that has it.
C12_CharacterDisambiguation ==
    (call_op = "resolve_remapped_keymap_item" /\ call_done)
    => LET kmi == call_args[1]
           per_op_kmi == call_args[2]
           equal == {i \in DOMAIN per_op_kmi :
                        KmiFingerprint_eq(KmiFingerprint_from_kmi(kmi), per_op_kmi[i][1])}
           on_target == {i \in equal :
                            per_op_kmi[i][2].target_char = event_type_to_char(kmi.type)}
           on_source == {i \in equal :
                            per_op_kmi[i][2].source_char = event_type_to_char(kmi.type)}
       IN  Cardinality(equal) > 1
           => /\ Cardinality(on_target) = 1 => call_res \in on_target
              /\ (Cardinality(on_target) # 1 /\ Cardinality(on_source) = 1)
                    => call_res \in on_source
              /\ (/\ Len(per_op_kmi) = 2
                  /\ [per_op_kmi[1][2] EXCEPT !.target_char = ""]
                        = [per_op_kmi[2][2] EXCEPT !.target_char = ""]
                  /\ per_op_kmi[1][2].target_char # per_op_kmi[2][2].target_char)
                    => \A i \in 1..2 :
                          per_op_kmi[i][2].target_char = event_type_to_char(kmi.type)
                          => call_res = i

\* C12 witness: two candidates with the binding's fingerprint whose diffs
\* differ only in target_char; the binding is on the second one's target
\* character, has other modifiers than both, and is matched to the second.
C12_Witness ==
    /\ call_op = "resolve_remapped_keymap_item" /\ call_done
    /\ Len(call_args[2]) = 2
    /\ \A i \in 1..2 :
          KmiFingerprint_eq(KmiFingerprint_from_kmi(call_args[1]), call_args[2][i][1])
    /\ [call_args[2][1][2] EXCEPT !.target_char = ""]
          = [call_args[2][2][2] EXCEPT !.target_char = ""]
    /\ call_args[2][2][2].target_char = event_type_to_char(call_args[1].type)
    /\ call_args[2][1][2].target_char # event_type_to_char(call_args[1].type)
    /\ call_args[2][1][2].modifiers # kmi_modifier_string(call_args[1])
    /\ call_res = 2

\* the candidates of the call whose fingerprint equals the binding's
EqualCandidates ==
    {i \in DOMAIN call_args[2] :
        KmiFingerprint_eq(KmiFingerprint_from_kmi(call_args[1]), call_args[2][i][1])}
\* ... those of S on the binding's character as target / as source
OnTarget(S) ==
    {i \in S : call_args[2][i][2].target_char = event_type_to_char(call_args[1].type)}
OnSource(S) ==
    {i \in S : call_args[2][i][2].source_char = event_type_to_char(call_args[1].type)}
\* ... those with the binding's modifiers signature and trigger mode
Narrowed ==
    {i \in EqualCandidates :
        /\ call_args[2][i][2].modifiers = kmi_modifier_string(call_args[1])
        /\ call_args[2][i][2].value = call_args[1].value}

\* C23: resolve compares only fingerprints first: if exactly one candidate of
\* the list has a fingerprint equal to the binding's it is returned whatever
\* the binding's character, modifiers and trigger mode are, and if none has
\* the result is unresolved.
C23_ResolveStepOne ==
    (call_op = "resolve_remapped_keymap_item" /\ call_done)
    => /\ Cardinality(EqualCandidates) = 1 => call_res \in EqualCandidates
       /\ EqualCandidates = {} => call_res = 0

\* C23 witness: the list holds one candidate with the binding's fingerprint;
\* its characters, modifiers and trigger mode all differ from the binding's,
\* and it is returned.
C23_Witness ==
    /\ call_op = "resolve_remapped_keymap_item" /\ call_done
    /\ Len(call_args[2]) = 2
    /\ EqualCandidates = {2}
    /\ call_args[2][2][2].target_char # event_type_to_char(call_args[1].type)
    /\ call_args[2][2][2].source_char # event_type_to_char(call_args[1].type)
    /\ call_args[2][2][2].modifiers # kmi_modifier_string(call_args[1])
    /\ call_args[2][2][2].value # call_args[1].value
    /\ call_res = 2

\* C24: when the character test on the fingerprint-equal candidates is not
\* unique, they are narrowed to those whose modifiers signature and trigger
\* mode both equal the binding's; none left gives unresolved, one left is
\* returned, several left repeat the target-then-source character test on
\* them, and if that is not unique either the result is unresolved.
C24_ResolveNarrowing ==
    (/\ call_op = "resolve_remapped_keymap_item" /\ call_done
     /\ Cardinality(EqualCandidates) > 1
     /\ Cardinality(OnTarget(EqualCandidates)) # 1
     /\ Cardinality(OnSource(EqualCandidates)) # 1)
    => /\ Narrowed = {} => call_res = 0
       /\ Cardinality(Narrowed) = 1 => call_res \in Narrowed
       /\ Cardinality(Narrowed) > 1 =>
             IF Cardinality(OnTarget(Narrowed)) = 1 THEN call_res \in OnTarget(Narrowed)
             ELSE IF Cardinality(OnSource(Narrowed)) = 1 THEN call_res \in OnSource(Narrowed)
             ELSE call_res = 0

\* C24 witness: several candidates are left after the narrowing, two of them
\* on the binding's character as target, and the result is unresolved.
C24_Witness ==
    /\ call_op = "resolve_remapped_keymap_item" /\ call_done
    /\ Cardinality(OnTarget(EqualCandidates)) > 1
    /\ Cardinality(OnSource(EqualCandidates)) # 1
    /\ Cardinality(OnTarget(Narrowed)) = 2
    /\ call_res = 0

----------------------------------------------------------------------------
\* Claims on the revert pass (checked under Spec)

\* C13: whenever revert_keymap_translation returns, with success or with
\* failure, the Journal read back through remapped_keys is empty.
C13_RevertLeavesJournalEmpty ==
    [][(last'.op = "revert" /\ ~is_emulation_active')
       => remapped_keys(remapped_keys_json') = <<>>]_vars

\* C13 witness: a revert has returned failure (some journal entry matched no
\* live binding) and the Journal is empty.
C13_Witness ==
    /\ last.op = "revert" /\ ~last.ok
    /\ ~is_emulation_active
    /\ remapped_keys(remapped_keys_json) = <<>>
    /\ NumBindings > 0

\* what C14 says of the outcome r of a revert over the journal at hand
C14_Outcome(r) ==
    /\ r.ok <=> JournalPlaces(remapped_keys(remapped_keys_json)) \subseteq r.matched
    /\ ~r.ok => r.unprocessed =
                   Cardinality(JournalPlaces(remapped_keys(remapped_keys_json))
                                  \ r.matched)

\* C14: revert_keymap_translation returns success exactly when a keymap item
\* resolved to every journal entry during the pass; otherwise it returns
\* failure and the number of unprocessed items it reports is the number of
\* journal entries to which no keymap item resolved.
C14_RevertReportsUnresolved ==
    [][(last'.op = "revert" /\ ~is_emulation_active')
       => (/\ last'.ok = revert_keymap_translation.ok
           /\ C14_Outcome(revert_keymap_translation))]_vars

\* C14 witness: a revert has returned failure after it restored some item:
\* some journal entries were matched and some were not.
C14_Witness ==
    /\ last.op = "revert" /\ ~last.ok /\ last.n > 0

----------------------------------------------------------------------------
\* Claims on a rejected assignment (checked under SpecImport)

\* the planned remaps the host rejects
Rejected(remaps) == {j \in DOMAIN remaps : remaps[j][3] \notin HostEventTypes}
\* the journal of text holds, for the planned remap p of the keymaps, an entry
\* of the item's operator with the item's character and the new character
Journaled(text, keymaps, p) ==
    LET kmi == keymaps[p[1]].keymap_items[p[2]]
        remapped_op == DictGet(DictGet(remapped_keys(text), keymap_id(keymaps[p[1]]), <<>>),
                               kmi.idname, <<>>)
    IN  \E e \in DOMAIN remapped_op :
           /\ remapped_op[e][2].source_char = event_type_to_char(kmi.type)
           /\ remapped_op[e][2].target_char = event_type_to_char(p[3])
\* what C15 says of a pass with outcome r whose plan holds a rejected remap
C15_Outcome(r) ==
    LET first == CHOOSE j \in Rejected(r.remaps) : \A h \in Rejected(r.remaps) : j <= h
    IN  /\ ~last'.ok
        /\ \A j \in DOMAIN r.remaps :
              user_keymaps'[r.remaps[j][1]].keymap_items[r.remaps[j][2]].type
                = IF j < first THEN r.remaps[j][3]
                  ELSE user_keymaps[r.remaps[j][1]].keymap_items[r.remaps[j][2]].type
        /\ \A j \in DOMAIN r.remaps :
              Journaled(remapped_keys_json', user_keymaps, r.remaps[j])

\* C15: when the host rejects the change of one binding during an apply pass,
\* no binding later in the planned order is mutated, the pass returns
\* failure, the bindings mutated earlier stay mutated, and the Journal entries
\* written for all the planned bindings, attempted or not, remain.
C15_MutationFailureAborts ==
    [][(/\ last'.op = "pass"
        /\ Rejected(reapply_keymap_translation(get_preferred_layout_translation).remaps) # {})
       => C15_Outcome(reapply_keymap_translation(get_preferred_layout_translation))]_vars

\* C15 witness: a pass has failed on its second planned binding; the first
\* carries its mutation, the second does not, and both are in the Journal.
C15_Witness ==
    /\ last.op = "pass" /\ ~last.ok /\ last.n = 2
    /\ Len(user_keymaps[1].keymap_items) = 2
    /\ user_keymaps[1].keymap_items[1].g_applied = 1
    /\ user_keymaps[1].keymap_items[2].g_applied = 0
    /\ user_keymaps[1].keymap_items[2].type = user_keymaps[1].keymap_items[2].g_orig
    /\ JournalSize(remapped_keys(remapped_keys_json)) = 2

\* the journal entries of the operator of item i of keymap k
JournalOf(k, i) ==
    DictGet(DictGet(remapped_keys(remapped_keys_json), keymap_id(user_keymaps[k]), <<>>),
            user_keymaps[k].keymap_items[i].idname, <<>>)
\* the places <<k, i>> of the bindings that an aborted pass left journaled
\* but never mutated: the latest pass failed past its refusal, the binding
\* carries no mutation and the Journal holds the entry planned for it
JournaledNeverMutated ==
    {p \in {q \in (DOMAIN user_keymaps) \X (1..MaxBindings) :
                q[2] \in DOMAIN user_keymaps[q[1]].keymap_items} :
        /\ last.op = "pass" /\ ~last.ok
        /\ is_valid(get_preferred_layout_translation) \/ allow_key_conflicts_in_input_layout
        /\ user_keymaps[p[1]].keymap_items[p[2]].g_applied = 0
        /\ is_remappable_keymap_item(user_keymaps[p[1]].keymap_items[p[2]],
                                     get_preferred_layout_translation)
        /\ Journaled(remapped_keys_json, user_keymaps,
                     <<p[1], p[2],
                       map_input_type_to_output_type(
                           get_preferred_layout_translation,
                           user_keymaps[p[1]].keymap_items[p[2]].type)>>)}
\* the places of the bindings in the pending list
PendingPlaces ==
    {<<pending_keymaps_to_emulate[j][1], pending_keymaps_to_emulate[j][2]>> :
        j \in DOMAIN pending_keymaps_to_emulate}

\* C16 as stated: after an apply pass aborted by a mutation failure, the
\* plan computed next skips the bindings that were journaled but never
\* mutated: none of them is in the pending list.
C16_AbortedBindingsSkipped == JournaledNeverMutated \cap PendingPlaces = {}

\* C16 amended: after an apply pass aborted by a mutation failure, the plan
\* computed next yields again every binding that was journaled but never
\* mutated and whose operator has that one Journal entry; such a binding is
\* left out of the pending list only when resolve matches it with an entry
\* recorded from another character.
C16_AbortedBindingsPlannedAgain ==
    \A p \in JournaledNeverMutated :
       /\ Len(JournalOf(p[1], p[2])) = 1 => p \in PendingPlaces
       /\ p \notin PendingPlaces =>
             LET rs == resolve_remapped_keymap_item(
                           user_keymaps[p[1]].keymap_items[p[2]], JournalOf(p[1], p[2]))
             IN  /\ rs # 0
                 /\ JournalOf(p[1], p[2])[rs][2].source_char
                      # event_type_to_char(user_keymaps[p[1]].keymap_items[p[2]].type)

\* C16 witness: a pass was aborted on a binding that is the only one of its
\* operator in the Journal, and the plan holds that binding again.
C16_Witness ==
    \E p \in JournaledNeverMutated :
       /\ Len(JournalOf(p[1], p[2])) = 1
       /\ p \in PendingPlaces

----------------------------------------------------------------------------
\* Claims on the persisted texts (checked under SpecCalls)

\* the text read is no JSON, or JSON of another shape than the object the
\* setter of the property writes
WrongText(text) ==
    \/ text.kind = "malformed"
    \/ text.kind = "json" /\ text.value.t # "dict"

\* C17 as stated: when the persisted custom-layouts text or Journal text
\* fails to parse as JSON, or parses to a value of the wrong shape, reading
\* custom_layouts / remapped_keys raises no error and yields the empty value.
C17_MalformedNeverFatal ==
    (/\ call_done /\ call_op \in {"custom_layouts", "remapped_keys"}
     /\ WrongText(call_args[1]))
    => (~call_res.raised /\ call_res.value = <<>>)

\* C17 witness: the Journal was read from a text that holds a JSON list, and
\* the read raised.
C17_Witness ==
    /\ call_done /\ call_op = "remapped_keys"
    /\ call_args[1].kind = "json" /\ call_args[1].value.t = "list"
    /\ call_res.raised

\* C18 as stated: exporting any stored custom layout and importing the
\* exported object under a layout name yields a Translation equal to the
\* exported one in forward map, backward map and conflicts.
C18_ExportImportRoundTrip ==
    (call_done /\ call_op = "export_import")
    => (/\ SameMaps(call_res.imported, call_res.exported)
        /\ conflicting_keys(call_res.imported) = conflicting_keys(call_res.exported))

\* C18 witness: a layout that maps two physical keys to one character that is
\* no physical key, stored with the later key first, went through export and
\* import; the backward maps differ.
C18_Witness ==
    /\ call_done /\ call_op = "export_import"
    /\ call_args[1] = << <<"C", "+">>, <<"A", "+">> >>
    /\ ~DictEq(call_res.imported.out_in, call_res.exported.out_in)

\* what C19 says of a rejected edit of the layout name: the call raised and
\* the stored custom layouts, the built-in Translations and the Journal are
\* as before
C19_Rejected(name) ==
    (is_built_in_layout(name) \/ is_emulation_active)
    => (/\ ~last'.ok
        /\ custom_layouts_json' = custom_layouts_json
        /\ remapped_keys_json' = remapped_keys_json
        /\ \A b \in built_in_names :
              get_layout_translation(b)' = get_layout_translation(b))

\* C19: editing a built-in layout, or editing any layout while emulation is
\* active, is rejected: set_custom_layout and update_layout_key raise and
\* leave the stored custom layouts, the built-in Translations and the Journal
\* unchanged.
C19_LockedEditsRejected ==
    [][\A name \in EditedLayoutNames :
          /\ \A layout \in ImportedFiles :
                SetCustomLayout(name, layout) => C19_Rejected(name)
          /\ \A us_qwerty_key \in EditedPhysicalKeys, new_key \in CapturedChars :
                UpdateLayoutKey(name, us_qwerty_key, new_key) => C19_Rejected(name)]_vars

\* C19 witness: an edit was rejected while emulation is active, a custom
\* layout is stored and the Journal is not empty.
C19_Witness ==
    /\ last.op = "edit" /\ ~last.ok
    /\ is_emulation_active
    /\ custom_layouts # <<>>
    /\ remapped_keys(remapped_keys_json) # <<>>

\* the keymap item of the planned remap p among keymaps
ItemOf(keymaps, p) == keymaps[p[1]].keymap_items[p[2]]
\* the journal of text holds an entry of the operator of the planned remap p
\* whose target_char is the character of the item among keymaps
TargetJournaled(text, keymaps, p) ==
    LET kmi == ItemOf(keymaps, p)
        remapped_op == DictGet(DictGet(remapped_keys(text), keymap_id(keymaps[p[1]]), <<>>),
                               kmi.idname, <<>>)
    IN  \E e \in DOMAIN remapped_op :
           remapped_op[e][2].target_char = event_type_to_char(kmi.type)
\* what C22 says of a pass with outcome r: the text persisted holds an entry
\* for every planned binding, and after each number m of assignments done
\* every binding mutated so far has an entry with its character as target
C22_Outcome(r) ==
    /\ \A j \in DOMAIN r.remaps : Journaled(r.remapped_keys_json, user_keymaps, r.remaps[j])
    /\ \A m \in 0..Len(r.remaps) :
          Rejected(SubSeq(r.remaps, 1, m)) = {} =>
             \A j \in 1..m :
                TargetJournaled(r.remapped_keys_json,
                                AssignTypes(user_keymaps, SubSeq(r.remaps, 1, m)).keymaps,
                                r.remaps[j])
    /\ \A j \in DOMAIN r.remaps :
          ItemOf(user_keymaps', r.remaps[j]).type # ItemOf(user_keymaps, r.remaps[j]).type
             => TargetJournaled(remapped_keys_json', user_keymaps', r.remaps[j])

\* C22: in every apply pass the Journal is persisted with an entry for every
\* planned binding before the first binding is changed, so at every point of
\* the mutation loop each binding already mutated has a Journal entry whose
\* target_char equals its current character.
C22_DurabilityFirst ==
    [][last'.op = "pass"
       => C22_Outcome(reapply_keymap_translation(get_preferred_layout_translation))]_vars

\* C22 witness: a pass planned two bindings, mutated the first and was
\* rejected on the second, and the binding it mutated is in the Journal with
\* its new character as target.
C22_Witness ==
    /\ last.op = "pass" /\ ~last.ok /\ last.n = 2
    /\ Len(user_keymaps[1].keymap_items) = 2
    /\ user_keymaps[1].keymap_items[1].g_applied = 1
    /\ user_keymaps[1].keymap_items[1].type # user_keymaps[1].keymap_items[1].g_orig
    /\ TargetJournaled(remapped_keys_json, user_keymaps, <<1, 1>>)

----------------------------------------------------------------------------
\* Claims on the reapply on reload (checked under SpecReload)

\* a step that runs a timer
TimerStep == Len(timers') = Len(timers) - 1 /\ last'.op \in {"pass", "timer"}
\* no pass runs in the step
NoPassRun ==
    /\ last'.op # "pass"
    /\ user_keymaps' = user_keymaps
    /\ remapped_keys_json' = remapped_keys_json

\* C20: when a file load or the add-on's registration happens with emulation
\* active and reapply_on_reload enabled, one apply pass is scheduled at once
\* and exactly one more after reapply_on_reload_delay iff that delay is
\* greater than 0, and each scheduled pass runs; when emulation is inactive
\* or reapply_on_reload is disabled no pass is scheduled and none is run.
C20_ReapplyOnReload ==
    [][/\ last'.op \in {"load", "register"} =>
          /\ NoPassRun
          /\ timers' = (IF last'.op = "load" THEN <<>> ELSE timers)
                \o (IF is_emulation_active /\ reapply_on_reload
                    THEN IF reapply_on_reload_delay > 0
                         THEN << Timer(0, TRUE), Timer(reapply_on_reload_delay, TRUE) >>
                         ELSE << Timer(0, TRUE) >>
                    ELSE <<>>)
       /\ TimerStep =>
          IF is_emulation_active /\ reapply_on_reload
          THEN last'.op = "pass" ELSE NoPassRun]_vars

\* C20 witness: a file was just loaded with emulation active,
\* reapply_on_reload enabled and a delay of 0 while a binding waits to be
\* remapped: exactly one timer is pending, and it is immediate.
C20_Witness ==
    /\ last.op = "load"
    /\ is_emulation_active /\ reapply_on_reload /\ reapply_on_reload_delay = 0
    /\ timers = << Timer(0, TRUE) >>
    /\ pending_keymaps_to_emulate # <<>>

----------------------------------------------------------------------------
\* Claims on the add-on change detection (checked under SpecAddons)

\* the step is a poll that finds a set of active add-ons other than the one
\* recorded
PollSeesChange ==
    /\ last'.op = "poll"
    /\ last_active_addons_set # {} /\ last_active_addons_set # addons

\* C21 as stated: with emulation active and detect_addon_changes enabled,
\* whenever a poll observes a set of active add-ons different from the one
\* recorded, an apply pass is scheduled (an immediate timer that runs the
\* pass whatever reapply_on_reload is), independently of reapply_on_reload.
C21_AddonChangeReapplies ==
    [][(PollSeesChange /\ is_emulation_active /\ detect_addon_changes)
       => (/\ Len(timers') > Len(timers)
           /\ timers'[Len(timers) + 1] = Timer(0, FALSE))]_vars

\* C21 witness: with emulation active, detection enabled and reapply_on_reload
\* disabled, a poll has just recorded a changed set of add-ons and no timer
\* is pending.
C21_Witness ==
    /\ last.op = "poll"
    /\ is_emulation_active /\ detect_addon_changes /\ ~reapply_on_reload
    /\ last_active_addons_set = {"keyboard_layout_emulation", "other"}
    /\ addons = last_active_addons_set
    /\ timers = <<>>

----------------------------------------------------------------------------
\* Claims on the plan (checked under Spec)

\* the places <<k, i>> of the live bindings
Places ==
    {q \in (DOMAIN user_keymaps) \X (1..MaxBindings) :
        q[2] \in DOMAIN user_keymaps[q[1]].keymap_items}
\* what the plan computed in this state yields for the binding at p: -1
\* nothing, 0 the binding with no journal entry attached, e > 0 the binding
\* with entry e of its operator attached
PlanOf(p) ==
    PendingOf(user_keymaps[p[1]].keymap_items[p[2]],
              DictHas(remapped_keys(remapped_keys_json), keymap_id(user_keymaps[p[1]])),
              DictGet(remapped_keys(remapped_keys_json), keymap_id(user_keymaps[p[1]]), <<>>),
              get_preferred_layout_translation)

\* C25: the plan yields a binding as a pending new remap (no journal entry
\* attached) exactly when it is_remappable and either the Journal has no
\* entry for its (binding set, operation id) pair or resolve returns
\* unresolved for it; a binding that is not is_remappable is never in the
\* plan.
C25_PlanClassifiesNewRemaps ==
    \A p \in Places :
       LET kmi == user_keymaps[p[1]].keymap_items[p[2]]
           remappable == is_remappable_keymap_item(kmi, get_preferred_layout_translation)
       IN  /\ PlanOf(p) = 0
              <=> (/\ remappable
                   /\ \/ JournalOf(p[1], p[2]) = <<>>
                      \/ resolve_remapped_keymap_item(kmi, JournalOf(p[1], p[2])) = 0)
           /\ p \in PendingPlaces <=> PlanOf(p) # -1
           /\ ~remappable => p \notin PendingPlaces

\* C25 witness: the Journal holds entries for a binding's operation in its
\* binding set, resolve leaves the binding unresolved, and the plan yields it
\* as a new remap; another binding is not remappable and not in the plan.
C25_Witness ==
    /\ \E p \in Places :
          /\ JournalOf(p[1], p[2]) # <<>>
          /\ PlanOf(p) = 0
          /\ p \in PendingPlaces
    /\ \E p \in Places :
          /\ ~is_remappable_keymap_item(user_keymaps[p[1]].keymap_items[p[2]],
                                        get_preferred_layout_translation)
          /\ p \notin PendingPlaces

----------------------------------------------------------------------------
\* External resets of remapped bindings

\* the host (the user in the keymap editor, another add-on) sets the type of
\* the remapped item i of keymap k back to the source_char recorded in its
\* journal entry e: the entry of its operator with its fingerprint, its
\* modifiers and value, the character it had before the remap as source_char
\* and the character it has now as target_char
HostResetKeymapItem(k, i, e) ==
    /\ i \in DOMAIN user_keymaps[k].keymap_items
    /\ e \in DOMAIN JournalOf(k, i)
    /\ LET kmi == user_keymaps[k].keymap_items[i]
           entry == JournalOf(k, i)[e]
       IN  /\ kmi.g_applied > 0
           /\ KmiFingerprint_eq(KmiFingerprint_from_kmi(kmi), entry[1])
           /\ entry[2].modifiers = kmi_modifier_string(kmi)
           /\ entry[2].value = kmi.value
           /\ entry[2].target_char = event_type_to_char(kmi.type)
           /\ entry[2].source_char = event_type_to_char(kmi.g_orig)
           /\ entry[2].source_char # entry[2].target_char
           /\ user_keymaps' =
                 [user_keymaps EXCEPT ![k].keymap_items[i] =
                     [kmi EXCEPT !.type = char_to_event_type(entry[2].source_char),
                                 !.g_applied = 0]]
    /\ last' = [op |-> "host_reset", ok |-> TRUE, n |-> i, km |-> k,
                pre |-> "other", entry |-> e]
    /\ UNCHANGED <<remapped_keys_json, custom_layouts_json,
                   hidden__preferred_input_layout, hidden__preferred_target_layout,
                   is_emulation_active, allow_key_conflicts_in_input_layout, hist>>

\* the host gives either keymap the plain items on Y and Z
ResetHostItems == HostItemsOf(2)

InitReset == EngineInit /\ AlgIdle /\ CallIdle /\ ReloadIdle /\ AddonIdle /\ PanelIdle

NextReset ==
    \/ \E k \in DOMAIN user_keymaps : \E item \in ResetHostItems :
          HostAddKeymapItem(k, item) /\ UNCHANGED <<alg_vars, call_vars, reload_vars, addon_vars, panel_vars>>
    \/ \E name \in SelectableLayouts : SelectInputLayout(name) /\ UNCHANGED <<alg_vars, call_vars, reload_vars, addon_vars, panel_vars>>
    \/ ApplyOperator /\ UNCHANGED <<alg_vars, call_vars, reload_vars, addon_vars, panel_vars>>
    \/ on_reapply_requested /\ UNCHANGED <<alg_vars, call_vars, reload_vars, addon_vars, panel_vars>>
    \/ RevertOperator /\ UNCHANGED <<alg_vars, call_vars, reload_vars, addon_vars, panel_vars>>
    \/ \E k \in DOMAIN user_keymaps, i \in 1..MaxBindings, e \in 1..MaxJournal :
          HostResetKeymapItem(k, i, e) /\ UNCHANGED <<alg_vars, call_vars, reload_vars, addon_vars, panel_vars>>

SpecReset == InitReset /\ [][NextReset]_vars

\* Claims on external resets (checked under SpecReset)

\* the host has just reset the binding at <<last.km, last.n>> to the
\* source_char of entry last.entry of its operator
JustReset == last.op = "host_reset"
ResetPlace == <<last.km, last.n>>
\* ... and the preferred Translation still remaps the character it was
\* reset to
ResetInForce ==
    /\ JustReset
    /\ is_remappable_keymap_item(user_keymaps[last.km].keymap_items[last.n],
                                 get_preferred_layout_translation)
\* the plan holds the reset binding paired with the entry it was reset from
ResetPlanned == ResetInForce => PlanOf(ResetPlace) = last.entry
\* the pass that follows the reset remaps the binding again, to the
\* character the preferred Translation gives its reset type, and keeps the
\* number of Journal entries of its operator
ResetRemapped ==
    ResetInForce /\ last'.op = "pass" /\ last'.ok =>
       LET kmi == user_keymaps[last.km].keymap_items[last.n]
       IN  /\ user_keymaps'[last.km].keymap_items[last.n].type
                 = map_input_type_to_output_type(get_preferred_layout_translation,
                                                 kmi.type)
           /\ user_keymaps'[last.km].keymap_items[last.n].type # kmi.type
           /\ Len(JournalOf(last.km, last.n)') = Len(JournalOf(last.km, last.n))

\* C26: if, after Apply, the host sets a remapped binding's trigger_char
\* back to the source_char recorded in its Journal entry, the next plan
\* contains that binding paired with that same Journal entry, and the next
\* apply pass remaps it again without adding a Journal entry.
C26_ResetBindingsRemappedAgain ==
    [][ResetPlanned' /\ ResetRemapped]_vars

\* C26 witness: two bindings of one operator were remapped, one from Y to Z
\* and one from Z to Y; the host has reset the first to Y, emulation is
\* active, and the plan leaves the reset binding out.
C26_Witness ==
    /\ ResetInForce
    /\ is_emulation_active
    /\ JournalSize(remapped_keys(remapped_keys_json)) = 2
    /\ JournalOf(last.km, last.n)[last.entry][2].source_char
          = event_type_to_char(user_keymaps[last.km].keymap_items[last.n].type)
    /\ ResetPlace \notin PendingPlaces

\* no other entry of the reset binding's operator carries the reset
\* character as its target or as its source
ResetAlone ==
    /\ ResetInForce
    /\ \A e \in DOMAIN JournalOf(last.km, last.n) :
          \/ e = last.entry
          \/ /\ JournalOf(last.km, last.n)[e][2].target_char
                   # JournalOf(last.km, last.n)[last.entry][2].source_char
             /\ JournalOf(last.km, last.n)[e][2].source_char
                   # JournalOf(last.km, last.n)[last.entry][2].source_char
\* ... and then the reset binding is planned with its entry
ResetAlonePlanned == ResetAlone => ResetPlanned

----------------------------------------------------------------------------
\* Claims on the size of the Journal (checked under Spec)

\* the number of live bindings of keymap k with the operator of its item i
LiveBindings(k, i) ==
    Cardinality({j \in DOMAIN user_keymaps[k].keymap_items :
                    user_keymaps[k].keymap_items[j].idname
                       = user_keymaps[k].keymap_items[i].idname})

\* C27: over any sequence of apply passes without a revert, for every
\* (binding set, operation id) the number of Journal entries never exceeds
\* the number of live bindings with that operation id in that binding set.
C27_JournalNeverHoldsDuplicates ==
    ~hist.reverted =>
       \A p \in Places : Len(JournalOf(p[1], p[2])) <= LiveBindings(p[1], p[2])

\* C27 witness: no revert has run, the latest operation is a successful
\* apply pass, and the Journal holds more entries for an operator of a
\* binding set than the set has bindings of that operator.
C27_Witness ==
    /\ ~hist.reverted
    /\ last.op = "pass" /\ last.ok
    /\ \E p \in Places : Len(JournalOf(p[1], p[2])) > LiveBindings(p[1], p[2])

----------------------------------------------------------------------------
\* Claims on the plan within a pass (checked under Spec)

\* the apply pass on the preferred Translation with every binding
\* classified from the Journal as it stands in this state: the generator
\* never sees what the loop writes
PassFromStartState ==
    PassKeymaps(user_keymaps, 1,
                [remapped |-> remapped_keys(remapped_keys_json),
                 seen |-> remapped_keys(remapped_keys_json),
                 remaps |-> <<>>],
                get_preferred_layout_translation, get_preferred_layout_translation,
                FALSE, TRUE)

\* C28: within one apply pass, the plan item produced for each binding is
\* the one the plan would produce from the bindings, the Translation and the
\* Journal as they stood when the pass began; Journal entries appended
\* earlier in the same pass never change how a later binding of the same
\* pass is classified, whether the Journal was empty or not at the start.
\* A pass that ran remaps the bindings and writes the Journal that the
\* classification at its start gives.
C28_PlanFixedAtPassStart ==
    [][last'.op = "pass" /\ last'.ok =>
          /\ last'.n = Len(PassFromStartState.remaps)
          /\ remapped_keys_json'
                = remapped_keys_set(Some(PassFromStartState.remapped))]_vars

\* C28 witness: a second pass in a row has remapped two bindings of one
\* operator again and has left three Journal entries for them: the first was
\* classified as a new remap and the entry appended for it was attached to
\* the second.
C28_Witness ==
    /\ last.op = "pass" /\ last.ok /\ last.pre = "pass" /\ last.n = 2
    /\ ~hist.reverted
    /\ \E p \in Places :
          /\ LiveBindings(p[1], p[2]) = 2
          /\ Len(JournalOf(p[1], p[2])) = 3

----------------------------------------------------------------------------
\* Calls of the constructors, of compose and of update on drawn Translations

\* two reference-layout keys and one character that is no reference key
TransLabels == {"A", "B", "+"}
\* every dict of at most n entries over these labels, in every insertion order
TransDicts(n) ==
    UNION {{d \in [1..k -> TransLabels \X TransLabels] : IsDict(d)} : k \in 0..n}
\* the Translations handed to compose in pairs and updated: built from a
\* forward map of at most MaxEntries entries, or from a forward and a backward
\* map of at most one entry each
DrawnTranslations ==
    {LayoutTranslation(d, Ellipsis) : d \in TransDicts(MaxEntries)}
    \cup {LayoutTranslation(d, e) : d \in TransDicts(1), e \in TransDicts(1)}
\* the Translations handed to compose in threes
ChainedTranslations ==
    {LayoutTranslation(d, Ellipsis) : d \in TransDicts(1)}

CallInitConstruct ==
    /\ call_op = "construct"
    /\ call_args \in TransDicts(MaxEntries) \X ({Ellipsis} \cup TransDicts(MaxEntries))
    /\ call_res = <<>>
    /\ call_done = FALSE

\* t = LayoutTranslation(in_out_dict[, out_in_dict])
CallConstruct ==
    /\ call_op = "construct" /\ ~call_done
    /\ call_res' = LayoutTranslation(call_args[1], call_args[2])
    /\ call_done' = TRUE
    /\ UNCHANGED <<call_op, call_args>>
    /\ UNCHANGED <<engine_vars, alg_vars, reload_vars, addon_vars, panel_vars>>

CallInitUpdate ==
    /\ call_op = "update"
    /\ call_args \in DrawnTranslations \X TransDicts(1) \X ({Ellipsis} \cup TransDicts(1))
    /\ call_res = <<>>
    /\ call_done = FALSE

\* t.update(in_out[, out_in])
CallUpdate ==
    /\ call_op = "update" /\ ~call_done
    /\ call_res' = update(call_args[1], call_args[2], call_args[3])
    /\ call_done' = TRUE
    /\ UNCHANGED <<call_op, call_args>>
    /\ UNCHANGED <<engine_vars, alg_vars, reload_vars, addon_vars, panel_vars>>

CallInitCompose ==
    /\ call_op = "compose"
    /\ call_args \in {<<>>}
                     \cup {<<t>> : t \in DrawnTranslations}
                     \cup (DrawnTranslations \X DrawnTranslations)
                     \cup (ChainedTranslations \X ChainedTranslations
                              \X ChainedTranslations)
    /\ call_res = <<>>
    /\ call_done = FALSE

\* c = LayoutTranslation.compose(*layouts); c.map_input_to_output(x) and
\* c.map_output_to_input(x)
CallCompose ==
    /\ call_op = "compose" /\ ~call_done
    /\ \E x \in TransLabels :
          call_res' = [x |-> x,
                       forward |-> map_input_to_output(compose(call_args), x),
                       backward |-> map_output_to_input(compose(call_args), x)]
    /\ call_done' = TRUE
    /\ UNCHANGED <<call_op, call_args>>
    /\ UNCHANGED <<engine_vars, alg_vars, reload_vars, addon_vars, panel_vars>>

InitTranslations ==
    /\ EngineInit /\ AlgIdle /\ ReloadIdle /\ AddonIdle /\ PanelIdle
    /\ (CallInitConstruct \/ CallInitUpdate \/ CallInitCompose)

NextTranslations ==
    \/ CallConstruct
    \/ CallUpdate
    \/ CallCompose

SpecTranslations == InitTranslations /\ [][NextTranslations]_vars

\* Claims on compose (checked under SpecTranslations)

\* tn.map_input_to_output(... t1.map_input_to_output(x))
RECURSIVE ForwardChain(_, _)
ForwardChain(layouts, x) ==
    IF layouts = <<>> THEN x
    ELSE ForwardChain(Tail(layouts), map_input_to_output(layouts[1], x))
\* t1.map_output_to_input(... tn.map_output_to_input(x))
RECURSIVE BackwardChain(_, _)
BackwardChain(layouts, x) ==
    IF layouts = <<>> THEN x
    ELSE map_output_to_input(layouts[1], BackwardChain(Tail(layouts), x))

\* C29: compose applies its arguments left to right: for all Translations
\* t1..tn and every label x, map_input_to_output of the composition gives
\* tn.map_input_to_output(... t1.map_input_to_output(x)), and
\* map_output_to_input of the composition applies the backward maps in the
\* reverse order, tn first and t1 last.
C29_ComposeLeftToRight ==
    call_op = "compose" /\ call_done =>
       /\ call_res.forward = ForwardChain(call_args, call_res.x)
       /\ call_res.backward = BackwardChain(call_args, call_res.x)

\* C29 witness: three Translations were composed and a label went through
\* three different labels forward; two were composed and a label went
\* through two different labels backward.
C29_Witness ==
    /\ call_op = "compose" /\ call_done
    /\ \/ /\ Len(call_args) = 3
          /\ map_input_to_output(call_args[1], call_res.x) # call_res.x
          /\ map_input_to_output(call_args[2],
                 map_input_to_output(call_args[1], call_res.x))
                # map_input_to_output(call_args[1], call_res.x)
          /\ call_res.forward
                # map_input_to_output(call_args[2],
                      map_input_to_output(call_args[1], call_res.x))
       \/ /\ Len(call_args) = 2
          /\ map_output_to_input(call_args[2], call_res.x) # call_res.x
          /\ call_res.backward # map_output_to_input(call_args[2], call_res.x)
          /\ call_res.backward # call_res.x

\* Claims on the constructors (checked under SpecTranslations)

\* a Translation was constructed: by the constructor itself or by update
Constructed == call_done /\ call_op \in {"construct", "update"}
\* ... from a forward map alone
ConstructedForwardOnly ==
    call_done /\ call_op = "construct" /\ call_args[2] = Ellipsis
\* the forward map of t sends the physical label of its backward entry j to
\* the entry's substituted label
Agrees(t, j) ==
    /\ DictHas(t.in_out, t.out_in[j][2])
    /\ DictGet(t.in_out, t.out_in[j][2], t.out_in[j][2]) = t.out_in[j][1]

\* C30: in both construction modes no entry on which the two maps disagree
\* remains in backward: every entry backward[s] == p of a constructed
\* Translation satisfies forward[p] == s.
C30_NoDisagreementInBackward ==
    Constructed => \A j \in DOMAIN call_res.out_in : Agrees(call_res, j)

\* C30 (amended): a Translation built from a forward map alone has only
\* agreeing entries in backward; one built from forward and backward maps
\* keeps the backward map it was given, identity entries apart, and every
\* entry backward[s] == p with forward[p] # s has p in conflicts; the same
\* holds of the result of update.
C30_DisagreementsKeptAndRecorded ==
    /\ ConstructedForwardOnly =>
          \A j \in DOMAIN call_res.out_in : Agrees(call_res, j)
    /\ Constructed =>
          \A j \in DOMAIN call_res.out_in :
             \/ Agrees(call_res, j)
             \/ call_res.out_in[j][2] \in conflicting_keys(call_res)
    /\ call_done /\ call_op = "construct" /\ call_args[2] # Ellipsis =>
          call_res.out_in = StripIdentity(call_args[2])

\* C30 witness: a Translation was built from a forward and a backward map,
\* both with entries, and its backward map holds an entry the forward map
\* disagrees with, whose physical label is in conflicts.
C30_Witness ==
    /\ call_done /\ call_op = "construct" /\ call_args[2] # Ellipsis
    /\ call_res.in_out # <<>>
    /\ \E j \in DOMAIN call_res.out_in :
          /\ ~Agrees(call_res, j)
          /\ call_res.out_in[j][2] \in conflicting_keys(call_res)

----------------------------------------------------------------------------
\* Apply passes over bindings of every kind

\* the host gives either keymap a keyboard item on Y pressed, one on Y
\* clicked, one on X pressed and a mouse item
FrameHostItems ==
    { Kmi("view3d.a", "Y", "KEYBOARD", 0, None),
      [Kmi("view3d.a", "Y", "KEYBOARD", 0, None) EXCEPT !.value = "CLICK"],
      Kmi("view3d.a", "X", "KEYBOARD", 0, None),
      Kmi("view3d.a", "LEFTMOUSE", "MOUSE", 0, None) }

InitFrame == EngineInit /\ AlgIdle /\ CallIdle /\ ReloadIdle /\ AddonIdle /\ PanelIdle

NextFrame ==
    \/ \E k \in DOMAIN user_keymaps : \E item \in FrameHostItems :
          HostAddKeymapItem(k, item) /\ UNCHANGED <<alg_vars, call_vars, reload_vars, addon_vars, panel_vars>>
    \/ \E name \in SelectableLayouts : SelectInputLayout(name) /\ UNCHANGED <<alg_vars, call_vars, reload_vars, addon_vars, panel_vars>>
    \/ ApplyOperator /\ UNCHANGED <<alg_vars, call_vars, reload_vars, addon_vars, panel_vars>>
    \/ on_reapply_requested /\ UNCHANGED <<alg_vars, call_vars, reload_vars, addon_vars, panel_vars>>
    \/ RevertOperator /\ UNCHANGED <<alg_vars, call_vars, reload_vars, addon_vars, panel_vars>>

SpecFrame == InitFrame /\ [][NextFrame]_vars

\* Claims on the frame of the apply pass (checked under SpecFrame)

\* the binding takes part in the Translation: a keyboard binding, pressed or
\* released, whose character is a key of the forward map
Participates(kmi, translation) ==
    /\ kmi.map_type = "KEYBOARD"
    /\ kmi.value \in {"PRESS", "RELEASE"}
    /\ event_type_to_char(kmi.type) \in DictKeys(translation.in_out)

\* C31: an apply pass changes the trigger_char only of bindings that are
\* keyboard bindings with trigger mode Press or Release and whose character
\* is in the Translation's forward-mapped key set; every other binding keeps
\* its trigger_char, and no field other than trigger_char is changed on any
\* binding.
C31_ApplyTouchesOnlyParticipants ==
    [][last'.op = "pass" =>
          \A k \in DOMAIN user_keymaps :
             /\ Len(user_keymaps'[k].keymap_items) = Len(user_keymaps[k].keymap_items)
             /\ [user_keymaps'[k] EXCEPT !.keymap_items = <<>>]
                   = [user_keymaps[k] EXCEPT !.keymap_items = <<>>]
             /\ \A i \in DOMAIN user_keymaps[k].keymap_items :
                   LET old == user_keymaps[k].keymap_items[i]
                       new == user_keymaps'[k].keymap_items[i]
                   IN  /\ new.type # old.type =>
                              Participates(old, get_preferred_layout_translation)
                       /\ [new EXCEPT !.type = old.type, !.g_applied = old.g_applied]
                             = old]_vars

\* C31 witness: a successful pass has remapped a pressed keyboard binding
\* next to a clicked keyboard binding on Y, which is still on Y.
C31_Witness ==
    /\ last.op = "pass" /\ last.ok /\ last.n = 1
    /\ \E p \in Places :
          /\ user_keymaps[p[1]].keymap_items[p[2]].value = "CLICK"
          /\ user_keymaps[p[1]].keymap_items[p[2]].type = "Y"
    /\ \E p \in Places :
          /\ user_keymaps[p[1]].keymap_items[p[2]].value = "PRESS"
          /\ user_keymaps[p[1]].keymap_items[p[2]].g_applied = 1
          /\ user_keymaps[p[1]].keymap_items[p[2]].type = "Z"

----------------------------------------------------------------------------
\* Claims on the lock of the Translation (checked under Spec)

\* C32: in every state where is_emulation_active is true, no operation the
\* add-on exposes changes the Translation returned by
\* get_preferred_layout_translation.
C32_TranslationFrozenWhileActive ==
    [][is_emulation_active =>
          get_preferred_layout_translation' = get_preferred_layout_translation]_vars

\* C32 witness: emulation is active, a binding carries an apply mutation
\* made under QWERTZ, and the input layout was just set to QWERTY.
C32_Witness ==
    /\ is_emulation_active
    /\ last.op = "config"
    /\ hist.switched
    /\ Engaged
    /\ hidden__preferred_input_layout = "QWERTY"
    /\ is_identity(get_preferred_layout_translation)

----------------------------------------------------------------------------
\* Claims on deferred passes and the revert operator (checked under SpecReload)

\* C33: a deferred apply pass that fires after emulation has been reverted
\* does nothing: in every interleaving of timer firings with the revert
\* operator, a scheduled pass that runs while is_emulation_active is false
\* writes nothing to the Journal and mutates no binding.
C33_DeferredPassAfterRevertIdle ==
    [][TimerStep /\ ~is_emulation_active =>
          /\ user_keymaps' = user_keymaps
          /\ remapped_keys_json' = remapped_keys_json]_vars

\* C33 witness: a timer has just fired after a revert, with emulation
\* inactive, while the plan holds bindings a pass would have remapped.
C33_Witness ==
    /\ last.op = "timer"
    /\ hist.reverted
    /\ ~is_emulation_active
    /\ reapply_on_reload
    /\ pending_keymaps_to_emulate # <<>>

----------------------------------------------------------------------------
\* preferences.py: import_from_json, called by
\* WM_OT_kle_import_addon_preferences.execute

\* the custom layouts a preferences file carries: L swaps X and Y
ImportedLayouts ==
    << <<"L", JObj(<< <<"Y", JStr("X")>>, <<"X", JStr("Y")>> >>)>> >>

\* the preferences files imported: files of this add-on and version that
\* carry the input layout's name, the flag and the custom layouts (Some);
\* the other keys of 'preferences' are absent
ImportedPreferences ==
    [preferred_input_layout : {Some("L")},
     is_emulation_active : {Some(TRUE), Some(FALSE)},
     custom_layouts : {Some(<<>>), Some(ImportedLayouts)}]

\* the properties of the operator handed to import_from_json; the two
\* options marked ONLY FOR DEBUG stay at their defaults
ImportArguments ==
    [import_emulation_status : BOOLEAN,
     ignore_emulation_lock : {FALSE},
     import_custom_layouts : {"NO", "UPDATE", "REPLACE", "ADD"},
     import_remapped_keymaps : {FALSE}]

\* `if not self.is_emulation_active or import_emulation_status or
\* ignore_emulation_lock` with the flag as the revert left it
ImportWritesNames(a, active) ==
    ~active \/ a.import_emulation_status \/ a.ignore_emulation_lock

\* self.preferred_input_layout = p.get('preferred_input_layout',
\* self.preferred_input_layout): the hidden name after the setter
ImportedName(a, active, imported, hidden, preferred) ==
    IF ~ImportWritesNames(a, active) THEN hidden
    ELSE IF imported = None THEN preferred
    ELSE IF is_valid_layout(imported[1]) THEN imported[1]
    ELSE hidden

\* self.is_emulation_active = p.get('is_emulation_active', ...)
ImportedActive(p, a, active) ==
    IF a.import_emulation_status \/ a.ignore_emulation_lock
    THEN IF p.is_emulation_active = None THEN active ELSE p.is_emulation_active[1]
    ELSE active

\* locked_input_custom_layout / locked_output_custom_layout with their
\* values: the custom layouts in use, kept while emulation is active
LockedLayouts(a, active) ==
    IF active /\ ~a.ignore_emulation_lock
    THEN SelectSeq(<< <<preferred_input_layout,
                        DictGet(custom_layouts, preferred_input_layout, JObj(<<>>))>>,
                      <<preferred_target_layout,
                        DictGet(custom_layouts, preferred_target_layout, JObj(<<>>))>> >>,
                   LAMBDA e : ~is_built_in_layout(e[1]))
    ELSE <<>>

\* p.get('custom_layouts', {})
ImportedLayoutsOf(p) == IF p.custom_layouts = None THEN <<>> ELSE p.custom_layouts[1]

\* the dict handed to the custom_layouts setter: the layouts merged as the
\* operator's choice says, then the locked layouts put back
ImportedCustomLayouts(p, a, active) ==
    DictUpdate(
        CASE a.import_custom_layouts = "REPLACE" -> ImportedLayoutsOf(p)
          [] a.import_custom_layouts = "UPDATE" ->
                DictUpdate(custom_layouts, ImportedLayoutsOf(p))
          [] a.import_custom_layouts = "ADD" ->
                DictUpdate(ImportedLayoutsOf(p), custom_layouts)
          [] OTHER -> custom_layouts,
        LockedLayouts(a, active))

\* `if import_remapped_keymaps: self.remapped_keys =
\* decode_remapped_keys(p.get('remapped_keys', {}))` on the journal text the
\* revert left
ImportedJournal(a, journal) ==
    IF a.import_remapped_keymaps
    THEN remapped_keys_set(decode_remapped_keys(JObj(<<>>)))
    ELSE journal

\* init_ui_state: the update callbacks of the UI state write the preferred
\* names back, the hidden name as the getter reads it over layouts
UiWrittenBack(name, layouts) ==
    IF is_built_in_layout(name) \/ DictHas(layouts, name) THEN name ELSE "QWERTY"

\* get_preferred_layout_translation over the custom layouts `layouts` and
\* the hidden names `input` and `target` (the preferences as the import has
\* written them)
CustomLayoutIn(layouts, name) ==
    IF DictGet(layouts, name, JNull).t = "dict"
    THEN Some([i \in DOMAIN SelectSeq(DictGet(layouts, name, JNull).v,
                                       LAMBDA e : e[2].t = "str") |->
                 <<SelectSeq(DictGet(layouts, name, JNull).v,
                             LAMBDA e : e[2].t = "str")[i][1],
                   SelectSeq(DictGet(layouts, name, JNull).v,
                             LAMBDA e : e[2].t = "str")[i][2].v>>])
    ELSE None
LayoutTranslationIn(layouts, name) ==
    IF is_built_in_layout(name) THEN DictGet(built_in, name, QWERTY)
    ELSE IF CustomLayoutIn(layouts, name) # None
         THEN from_dict(CustomLayoutIn(layouts, name)[1], Ellipsis)
         ELSE QWERTY
PreferredTranslationIn(layouts, input, target) ==
    IF is_identity(LayoutTranslationIn(layouts, UiWrittenBack(target, layouts)))
    THEN LayoutTranslationIn(layouts, UiWrittenBack(input, layouts))
    ELSE from_input_to_target(
            LayoutTranslationIn(layouts, UiWrittenBack(input, layouts)),
            LayoutTranslationIn(layouts, UiWrittenBack(target, layouts)))

\* (mutant) the translation of the re-apply fetched before the imported
\* fields are written
ImportReapplyTranslation_BeforeWrites(layouts, input, target) ==
    get_preferred_layout_translation

\* `translation = self.get_preferred_layout_translation()` of the re-apply,
\* after the imported fields are written
ImportReapplyTranslation(layouts, input, target) ==
    PreferredTranslationIn(layouts, input, target)

\* reapply_keymap_translation(translation, context) on the keymaps and the
\* journal text the import has reached
ImportReapplyCommit(keymaps, st) == ReapplyResult(st, AssignTypes(keymaps, st.remaps))
ImportReapply(keymaps, journal, translation) ==
    IF ~is_valid(translation) /\ ~allow_key_conflicts_in_input_layout
    THEN [ok |-> FALSE, refused |-> TRUE, remapped_keys_json |-> journal,
          user_keymaps |-> keymaps, remaps |-> <<>>]
    ELSE ImportReapplyCommit(keymaps,
            PassKeymaps(keymaps, 1,
                        [remapped |-> remapped_keys(journal),
                         seen |-> remapped_keys(journal), remaps |-> <<>>],
                        translation, translation,
                        SharesCachedJournal(journal), TRUE))

\* what the import did, observed: whether the revert ran and how many
\* entries it processed, whether the re-apply ran (n: how many bindings it
\* remapped), and the input layout preferred before it
ImportObserved(a, ok, reverted, reverted_n, reapplied, n) ==
    [op |-> "import", ok |-> ok, n |-> n, km |-> 0, pre |-> "other",
     reverted |-> reverted, reverted_n |-> reverted_n,
     reapplied |-> reapplied,
     from |-> preferred_input_layout]

\* the end of import_from_json: the re-apply ran with outcome q
ImportReapplied(a, reverted, reverted_n, q) ==
    /\ user_keymaps' = q.user_keymaps
    /\ remapped_keys_json' = q.remapped_keys_json
    /\ last' = ImportObserved(a, TRUE, reverted, reverted_n, TRUE, Len(q.remaps))

\* import_from_json past the revert: the flag is `active`, the bindings are
\* `keymaps` and the journal text is `journal`
ImportAfterRevert(p, a, active, keymaps, journal, reverted, reverted_n) ==
    /\ custom_layouts_json' = custom_layouts_set(ImportedCustomLayouts(p, a, active))
    /\ hidden__preferred_input_layout' =
          UiWrittenBack(ImportedName(a, active, p.preferred_input_layout,
                                     hidden__preferred_input_layout,
                                     preferred_input_layout),
                        custom_layouts_get(custom_layouts_json').value)
    /\ hidden__preferred_target_layout' =
          UiWrittenBack(ImportedName(a, active, None,
                                     hidden__preferred_target_layout,
                                     preferred_target_layout),
                        custom_layouts_get(custom_layouts_json').value)
    /\ is_emulation_active' =
          IF ImportWritesNames(a, active) THEN ImportedActive(p, a, active) ELSE active
    /\ UNCHANGED allow_key_conflicts_in_input_layout
    /\ IF a.import_emulation_status /\ is_emulation_active'
       THEN /\ JournalSize(remapped_keys(ImportedJournal(a, journal))) < MaxJournal
            /\ \E translation \in {ImportReapplyTranslation(
                                       custom_layouts_get(custom_layouts_json').value,
                                       hidden__preferred_input_layout',
                                       hidden__preferred_target_layout')} :
                  \E q \in {ImportReapply(keymaps, ImportedJournal(a, journal),
                                          translation)} :
                     ImportReapplied(a, reverted, reverted_n, q)
       ELSE /\ user_keymaps' = keymaps
            /\ remapped_keys_json' = ImportedJournal(a, journal)
            /\ last' = ImportObserved(a, TRUE, reverted, reverted_n, FALSE, 0)

\* import_from_json with the revert's outcome r: an exception of the revert
\* leaves the method (as ValueError) with nothing imported
ImportWithRevert(p, a, r) ==
    IF r.raised
    THEN /\ user_keymaps' = r.user_keymaps
         /\ last' = ImportObserved(a, FALSE, TRUE, Cardinality(r.processed), FALSE, 0)
         /\ UNCHANGED <<remapped_keys_json, custom_layouts_json,
                        hidden__preferred_input_layout,
                        hidden__preferred_target_layout, is_emulation_active,
                        allow_key_conflicts_in_input_layout>>
    ELSE ImportAfterRevert(p, a, FALSE, r.user_keymaps, r.remapped_keys_json,
                           TRUE, Cardinality(r.processed))

\* WM_OT_kle_import_addon_preferences.execute: import_from_json(p, ...)
import_from_json(p, a) ==
    /\ IF a.import_emulation_status /\ is_emulation_active
       THEN \E r \in {revert_keymap_translation} : ImportWithRevert(p, a, r)
       ELSE ImportAfterRevert(p, a, is_emulation_active, user_keymaps,
                              remapped_keys_json, FALSE, 0)
    /\ hist' = [hist EXCEPT !.reverted = @ \/ (a.import_emulation_status
                                               /\ is_emulation_active)]

\* the host gives the first keymap plain keyboard items on Y
PrefsImportHostItems == { Kmi("view3d.a", "Y", "KEYBOARD", 0, None) }

InitPrefsImport == EngineInit /\ AlgIdle /\ CallIdle /\ ReloadIdle /\ AddonIdle /\ PanelIdle

NextPrefsImport ==
    \/ \E item \in PrefsImportHostItems :
          HostAddKeymapItem(1, item) /\ UNCHANGED <<alg_vars, call_vars, reload_vars, addon_vars, panel_vars>>
    \/ \E name \in SelectableLayouts : SelectInputLayout(name) /\ UNCHANGED <<alg_vars, call_vars, reload_vars, addon_vars, panel_vars>>
    \/ ApplyOperator /\ UNCHANGED <<alg_vars, call_vars, reload_vars, addon_vars, panel_vars>>
    \/ RevertOperator /\ UNCHANGED <<alg_vars, call_vars, reload_vars, addon_vars, panel_vars>>
    \/ \E p \in ImportedPreferences : \E a \in ImportArguments :
          import_from_json(p, a) /\ UNCHANGED <<alg_vars, call_vars, reload_vars, addon_vars, panel_vars>>

SpecPrefsImport == InitPrefsImport /\ [][NextPrefsImport]_vars

\* Claims on the preferences import (checked under SpecPrefsImport)

\* the state the import ends in, given the outcome r of the revert pass run
\* on the state the import started in: with the imported flag on, the
\* re-apply pass was run on the reverted bindings and journal with the
\* Translation of the preferences as written; with it off, the reverted
\* bindings and journal are left as they are
ImportInStep(r) ==
    IF is_emulation_active'
    THEN /\ last'.reapplied
         /\ \E q \in {ImportReapply(r.user_keymaps, r.remapped_keys_json,
                         PreferredTranslationIn(
                             custom_layouts_get(custom_layouts_json').value,
                             hidden__preferred_input_layout',
                             hidden__preferred_target_layout'))} :
               /\ user_keymaps' = q.user_keymaps
               /\ remapped_keys_json' = q.remapped_keys_json
    ELSE /\ ~last'.reapplied
         /\ user_keymaps' = r.user_keymaps
         /\ remapped_keys_json' = r.remapped_keys_json

\* C34: a preferences import with emulation-status import keeps remap and
\* Translation in step: when emulation is active, the revert pass runs to
\* completion under the pre-import Translation before any layout name,
\* custom layout or Journal field is overwritten, and the re-apply pass (run
\* only if the imported state is active) starts only after all imported
\* fields are written and uses the post-import Translation.
C34_ImportRevertsThenReapplies ==
    [][last'.op = "import" /\ last'.reverted /\ last'.ok =>
          ImportInStep(revert_keymap_translation)]_vars

\* C34 witness: an import made while emulation was active under QWERTZ has
\* reverted a binding, selected the imported layout L and remapped the
\* binding from Y to X.
C34_Witness ==
    /\ last.op = "import" /\ last.ok
    /\ last.reverted /\ last.reverted_n > 0
    /\ last.reapplied /\ last.n > 0
    /\ last.from = "QWERTZ" /\ preferred_input_layout = "L"
    /\ is_emulation_active
    /\ \E p \in Places :
          /\ user_keymaps[p[1]].keymap_items[p[2]].g_orig = "Y"
          /\ user_keymaps[p[1]].keymap_items[p[2]].type = "X"

----------------------------------------------------------------------------
\* Claims on the apply operator's flag (checked under SpecImport)

\* C35: the Applied state is entered only through a successful pass: the
\* apply operator marks emulation active (is_emulation_active true) only
\* when the apply pass returned success; when the pass refuses or fails, the
\* active flag is left as it was.
C35_ActiveOnlyAfterSuccess ==
    [][last'.op = "pass" /\ ~last'.ok =>
          is_emulation_active' = is_emulation_active]_vars

\* C35 witness: emulation is marked active right after an apply pass that
\* did not return success, and no binding carries an apply mutation.
C35_Witness ==
    /\ last.op = "pass" /\ ~last.ok
    /\ is_emulation_active
    /\ ~Engaged

----------------------------------------------------------------------------
\* Apply with a target layout other than QWERTY

\* on_current_target_layout_update: the user picks an entry of the target
\* layout enum (enabled by allow_non_qwerty_target_layouts)
SelectTargetLayout(name) ==
    /\ is_valid_layout(name)
    /\ hidden__preferred_target_layout' = name
    /\ last' = Configured
    /\ hist' = IF Engaged /\ name # preferred_target_layout
               THEN [hist EXCEPT !.switched = TRUE] ELSE hist
    /\ UNCHANGED <<user_keymaps, remapped_keys_json, custom_layouts_json,
                   hidden__preferred_input_layout, is_emulation_active,
                   allow_key_conflicts_in_input_layout>>

\* the host gives the first keymap plain keyboard items on Y and on Z
TargetHostItems ==
    { Kmi("view3d.a", "Y", "KEYBOARD", 0, None),
      Kmi("view3d.a", "Z", "KEYBOARD", 0, None) }

InitTarget == EngineInit /\ AlgIdle /\ CallIdle /\ ReloadIdle /\ AddonIdle /\ PanelIdle

NextTarget ==
    \/ \E item \in TargetHostItems :
          HostAddKeymapItem(1, item) /\ UNCHANGED <<alg_vars, call_vars, reload_vars, addon_vars, panel_vars>>
    \/ \E layout_name \in CustomLayoutNames, data \in ImportedFiles :
          ImportLayout(layout_name, data) /\ UNCHANGED <<alg_vars, call_vars, reload_vars, addon_vars, panel_vars>>
    \/ \E name \in SelectableLayouts : SelectInputLayout(name) /\ UNCHANGED <<alg_vars, call_vars, reload_vars, addon_vars, panel_vars>>
    \/ \E name \in SelectableLayouts : SelectTargetLayout(name) /\ UNCHANGED <<alg_vars, call_vars, reload_vars, addon_vars, panel_vars>>
    \/ ApplyOperator /\ UNCHANGED <<alg_vars, call_vars, reload_vars, addon_vars, panel_vars>>
    \/ RevertOperator /\ UNCHANGED <<alg_vars, call_vars, reload_vars, addon_vars, panel_vars>>

SpecTarget == InitTarget /\ [][NextTarget]_vars

\* Claims on the composed Translation (checked under SpecTarget)

\* the Translations of the preferred input and target layouts
PreferredInput == OrQWERTY(get_layout_translation(preferred_input_layout))
PreferredTarget == OrQWERTY(get_layout_translation(preferred_target_layout))

\* the composition of two valid Translations is valid
ComposedValid ==
    is_valid(PreferredInput) /\ is_valid(PreferredTarget) =>
        is_valid(from_input_to_target(PreferredInput, PreferredTarget))

\* the apply pass just run refused its Translation: it returned no success
\* and it planned nothing
PassRefused == last.op = "pass" /\ ~last.ok /\ last.n = 0

\* C36: composition preserves validity: for all valid Translations a and b,
\* from_input_to_target(a, b) = compose(a, inverse(b)) is valid, so whenever
\* the apply operator's poll accepts (input layout conflict-free, target
\* layout valid, each checked separately) with conflict tolerance off, the
\* apply pass does not refuse the composed Translation as invalid.
C36_ComposedTranslationNotRefused ==
    [][/\ ComposedValid
       /\ (/\ is_preferred_layout_translation_applicable_and_non_trivial
           /\ ~allow_key_conflicts_in_input_layout
           /\ last'.op = "pass")
          => ~PassRefused']_vars

\* C36 witness: with conflict tolerance off, an input layout and a target
\* layout that are both valid and a composed Translation that is not, the
\* apply operator has run and its pass refused; emulation is marked active
\* and no binding is remapped.
C36_Witness ==
    /\ PassRefused
    /\ ~allow_key_conflicts_in_input_layout
    /\ is_valid(PreferredInput) /\ is_valid(PreferredTarget)
    /\ ~is_valid(from_input_to_target(PreferredInput, PreferredTarget))
    /\ is_preferred_layout_translation_applicable_and_non_trivial
    /\ NumBindings > 0 /\ ~Engaged

----------------------------------------------------------------------------
\* Claims on the built-in Translations (checked under SpecTarget)

\* the forward map of t is a permutation of its key set and the backward map
\* is its exact inverse
IsPermutation(t) ==
    /\ {p[2] : p \in DictItems(t.in_out)} = DictKeys(t.in_out)
    /\ \A p, q \in DictItems(t.in_out) : p[2] = q[2] => p = q
    /\ IsDict(t.in_out) /\ IsDict(t.out_in)
    /\ DictItems(t.out_in) = {<<p[2], p[1]>> : p \in DictItems(t.in_out)}

\* C37: every built-in Translation (QWERTY, AZERTY, QWERTZ, Dvorak, Colemak)
\* is valid (no conflicts) and its forward map is a permutation of its
\* remapped key set, so its backward map is the exact inverse of its forward
\* map and remapped_input_characters equals remapped_output_characters.
C37_BuiltInsArePermutations ==
    \A name \in built_in_names \cup {preferred_input_layout, preferred_target_layout} :
       is_built_in_layout(name) =>
       /\ DictHas(built_in, name)
       /\ is_valid(DictGet(built_in, name, QWERTY))
       /\ IsPermutation(DictGet(built_in, name, QWERTY))
       /\ remapped_input_characters(DictGet(built_in, name, QWERTY))
             = remapped_output_characters(DictGet(built_in, name, QWERTY))

\* C37 witness: the built-in QWERTZ is the preferred input layout, its
\* Translation has been applied to a binding, and the five built-ins remap
\* 0, 7, 2, 33 and 17 keys.
C37_Witness ==
    /\ preferred_input_layout = "QWERTZ" /\ preferred_target_layout = "QWERTY"
    /\ Engaged /\ is_emulation_active
    /\ Cardinality(remapped_input_characters(QWERTY)) = 0
    /\ Cardinality(remapped_input_characters(AZERTY)) = 7
    /\ Cardinality(remapped_input_characters(QWERTZ)) = 2
    /\ Cardinality(remapped_input_characters(dvorak)) = 33
    /\ Cardinality(remapped_input_characters(colemak)) = 17

----------------------------------------------------------------------------
\* preferences.py: the journal stored and read back (json_encode_dumps,
\* json_decode_loads with their list-encoded sets)

\* the elements of a set, each once, in the one order that stands for the set
RECURSIVE SeqOfSet(_)
SeqOfSet(S) ==
    IF S = {} THEN <<>>
    ELSE <<CHOOSE x \in S : TRUE>> \o SeqOfSet(S \ {CHOOSE x \in S : TRUE})

\* set(elements): a Python set, held as its elements without duplicates
\* and without an order of their own
PySet(elements) == [t |-> "set", v |-> SeqOfSet(elements)]

\* head.startswith('¦')
StartsWithBar(s) == Len(s) > 0 /\ SubSeq(s, 1, 1) = "¦"

\* patch of json_encode_dumps: a set becomes a list headed by '¦set' (its
\* elements in the order an iteration meets them, here the reverse), the
\* head of a list that starts with '¦' is given one more '¦'
EncodeHead(l) ==
    IF Len(l) > 0 /\ l[1].t = "str" /\ StartsWithBar(l[1].v)
    THEN JList([l EXCEPT ![1] = JStr("¦" \o l[1].v)])
    ELSE JList(l)
RECURSIVE EncodePatch(_)
EncodePatch(oo) ==
    IF oo.t = "set"
    THEN JList(<<JStr("¦set")>> \o Reversed([i \in DOMAIN oo.v |-> EncodePatch(oo.v[i])]))
    ELSE IF oo.t = "list"
    THEN EncodeHead([i \in DOMAIN oo.v |-> EncodePatch(oo.v[i])])
    ELSE IF oo.t = "dict"
    THEN JObj([i \in DOMAIN oo.v |-> <<oo.v[i][1], EncodePatch(oo.v[i][2])>>])
    ELSE oo

\* json_encode_dumps(o, encoder=encode_remapped_keys): the text written
json_encode_dumps(o) == JsonText(EncodePatch(encode_remapped_keys(o)))

\* (mutant) the patch of json_decode_loads without the sets: a list headed
\* by '¦set' stays a list
DecodeHead_KeepsLists(o) ==
    IF Len(o) > 1 /\ o[1].t = "str"
    THEN IF Len(o[1].v) > 1 /\ SubSeq(o[1].v, 1, 2) = "¦¦"
         THEN JList([o EXCEPT ![1] = JStr(SubSeq(o[1].v, 2, Len(o[1].v)))])
         ELSE JList(o)
    ELSE JList(o)

\* patch of json_decode_loads: a list of more than one element headed by
\* '¦set' becomes a set, a head that starts with '¦¦' loses one '¦'
DecodeHead(o) ==
    IF Len(o) > 1 /\ o[1].t = "str"
    THEN IF o[1].v = "¦set"
         THEN PySet({o[i] : i \in 2..Len(o)})
         ELSE IF Len(o[1].v) > 1 /\ SubSeq(o[1].v, 1, 2) = "¦¦"
         THEN JList([o EXCEPT ![1] = JStr(SubSeq(o[1].v, 2, Len(o[1].v)))])
         ELSE JList(o)
    ELSE JList(o)
RECURSIVE DecodePatch(_)
DecodePatch(o) ==
    IF o.t = "list"
    THEN DecodeHead([i \in DOMAIN o.v |-> DecodePatch(o.v[i])])
    ELSE IF o.t = "dict"
    THEN JObj([i \in DOMAIN o.v |-> <<o.v[i][1], DecodePatch(o.v[i][2])>>])
    ELSE o

\* json_decode_loads(text, decoder=decode_remapped_keys) on a stored text
json_decode_loads(text) == decode_remapped_keys(DecodePatch(text.value))

\* the properties of the bindings the journal is written for: none, plain
\* values, an enum set, a vector, a nested group with defaults only, a
\* string that starts with '¦'
JournalProperties ==
    << None,
       Some(<< <<"name", JStr("x")>>, <<"extend", JBool(FALSE)>> >>),
       Some(<< <<"type", PySet({JStr("VERT"), JStr("EDGE")})>> >>),
       Some(<< <<"value", JList(<<JInt(1), JInt(0)>>)>>, <<"mode", PySet({JStr("A")})>> >>),
       Some(<< <<"settings", JObj(<< <<"deep", JBool(FALSE)>> >>)>>,
               <<"name", JStr("y")>> >>),
       Some(<< <<"name", JStr("¦set")>> >>) >>

\* a remappable binding on Y
JournalKmi(idname, p, propvalue, active, value, ctrl) ==
    [Kmi(idname, "Y", "KEYBOARD", ctrl, JournalProperties[p])
        EXCEPT !.propvalue = propvalue, !.active = active, !.value = value]

\* the journal an apply pass under QWERTZ writes for these bindings of the
\* first keymap
JournalOfPass(items) ==
    PassKeymaps([EmptyKeymaps EXCEPT ![1].keymap_items = items], 1,
                [remapped |-> <<>>, seen |-> <<>>, remaps |-> <<>>],
                QWERTZ, QWERTZ, FALSE, TRUE).remapped

\* one binding, or two with a second one of either operator
CallInitJournal ==
    /\ call_op = "journal"
    /\ \E p \in DOMAIN JournalProperties, propvalue \in {"NONE", "CONFIRM"},
          active \in BOOLEAN, value \in {"PRESS", "RELEASE"}, ctrl \in {0, 1} :
          \/ call_args = <<JournalKmi("view3d.a", p, propvalue, active, value, ctrl)>>
          \/ \E q \in DOMAIN JournalProperties, idname \in {"view3d.a", "view3d.b"} :
                call_args = <<JournalKmi("view3d.a", p, propvalue, active, value, ctrl),
                              JournalKmi(idname, q, "NONE", TRUE, "PRESS", 0)>>
    /\ call_res = <<>>
    /\ call_done = FALSE

\* prefs.remapped_keys = journal (the setter), then, on the stored text,
\* the decoding of the getter
CallStoreJournal ==
    /\ call_op = "journal" /\ ~call_done
    /\ call_res' = [stored |-> JournalOfPass(call_args),
                    text |-> json_encode_dumps(Some(JournalOfPass(call_args))),
                    read |-> json_decode_loads(
                                 json_encode_dumps(Some(JournalOfPass(call_args))))]
    /\ call_done' = TRUE
    /\ UNCHANGED <<call_op, call_args>>
    /\ UNCHANGED <<engine_vars, alg_vars, reload_vars, addon_vars, panel_vars>>

InitJournal ==
    /\ EngineInit /\ AlgIdle /\ ReloadIdle /\ AddonIdle /\ PanelIdle
    /\ CallInitJournal

NextJournal == CallStoreJournal

SpecJournal == InitJournal /\ [][NextJournal]_vars

\* Claims on the stored journal (checked under SpecJournal)

\* C38: the Journal survives persistence unchanged: for every Journal an
\* apply pass can produce, storing it through the remapped_keys setter and
\* reading it back yields the same binding-set ids and operation ids with,
\* in the same order, fingerprints and diffs equal to the stored ones
\* (decode of encode is the identity).
C38_JournalSurvivesPersistence ==
    (call_op = "journal" /\ call_done) =>
        /\ call_res.read # None
        /\ call_res.read[1] = call_res.stored
        /\ JournalSize(call_res.read[1]) = Len(call_args)

\* C38 witness: a journal of two entries was stored and read back; one
\* entry's fingerprint holds an enum set, a propvalue and active = False,
\* and its diff a Release and a modifier.
C38_Witness ==
    /\ call_op = "journal" /\ call_done
    /\ Len(call_args) = 2
    /\ call_args[1].properties = JournalProperties[3]
    /\ call_args[1].propvalue = "CONFIRM" /\ ~call_args[1].active
    /\ call_args[1].value = "RELEASE" /\ call_args[1].ctrl = 1
    /\ call_res.text.value # encode_remapped_keys(Some(call_res.stored))
    /\ call_res.read = Some(call_res.stored)

----------------------------------------------------------------------------
\* ui.py: reapply from the keymap panel.  draw_in_keymap_prefs registers
\* reapply_from_keymap_prefs as a timer; the callback returns None, so a
\* timer runs once.  panel_timers counts the timers registered and not yet
\* run.

\* (mutant) the draw registers a timer without testing the request flag
PanelRequests_Unconflated ==
    /\ is_emulation_active /\ pending_keymaps_to_emulate # <<>>
    /\ reapply_on_keymaps_panel

\* lines 130-131 of draw_in_keymap_prefs: the draw asks for a pass
PanelRequests ==
    /\ is_emulation_active /\ pending_keymaps_to_emulate # <<>>
    /\ reapply_on_keymaps_panel /\ ~keymap_prefs_reapply_requested

\* draw_in_keymap_prefs: the host draws the keymap panel
draw_in_keymap_prefs ==
    /\ \E requests \in {PanelRequests} :
          IF requests
          THEN /\ panel_timers < MaxTimers
               /\ panel_timers' = panel_timers + 1
               /\ keymap_prefs_reapply_requested' = TRUE
          ELSE UNCHANGED <<panel_timers, keymap_prefs_reapply_requested>>
    /\ last' = Observed("draw", TRUE, 0, 0, "other")
    /\ UNCHANGED <<user_keymaps, remapped_keys_json, custom_layouts_json,
                   hidden__preferred_input_layout, hidden__preferred_target_layout,
                   is_emulation_active, allow_key_conflicts_in_input_layout, hist,
                   reapply_on_keymaps_panel, panel_ran>>

\* reapply_from_keymap_prefs: the host runs a pending timer of the panel.
\* on_reapply_requested() is maybe_reapply_translation(for_reload=False),
\* which returns at once or runs one apply pass; then the flag is cleared
reapply_from_keymap_prefs ==
    /\ panel_timers > 0
    /\ panel_timers' = panel_timers - 1
    /\ IF ~is_emulation_active
       THEN /\ last' = Observed("timer", TRUE, 0, 0, "other")
            /\ UNCHANGED <<user_keymaps, remapped_keys_json, hist>>
       ELSE Pass
    /\ keymap_prefs_reapply_requested' = FALSE
    /\ panel_ran' = TRUE
    /\ UNCHANGED <<custom_layouts_json, hidden__preferred_input_layout,
                   hidden__preferred_target_layout, is_emulation_active,
                   allow_key_conflicts_in_input_layout, reapply_on_keymaps_panel>>

\* the user flips "Reapply automatically here"
ToggleReapplyOnKeymapsPanel ==
    /\ reapply_on_keymaps_panel' = ~reapply_on_keymaps_panel
    /\ last' = Configured
    /\ UNCHANGED <<user_keymaps, remapped_keys_json, custom_layouts_json,
                   hidden__preferred_input_layout, hidden__preferred_target_layout,
                   is_emulation_active, allow_key_conflicts_in_input_layout, hist,
                   keymap_prefs_reapply_requested, panel_timers, panel_ran>>

\* a file is loaded: on_load_post runs (it registers no timer while reapply
\* on reload is off), and the host has dropped the timer of the panel with
\* the others (it is not registered as persistent); the global of ui.py is
\* left as it is
PanelLoad ==
    /\ on_load_post
    /\ panel_timers' = 0
    /\ UNCHANGED <<reapply_on_keymaps_panel, keymap_prefs_reapply_requested, panel_ran>>

\* the host gives the first keymap the plain items of view3d.a on Y and Z
PanelHostItems == HostItemsOf(2)

\* the user has switched reapply on reload off: the passes that no operator
\* runs come from the panel
InitPanel ==
    /\ EngineInit /\ AlgIdle /\ CallIdle /\ AddonIdle /\ PanelIdle
    /\ reapply_on_reload = FALSE
    /\ reapply_on_reload_delay = 3
    /\ timers = <<>>

NextPanel ==
    \/ \E item \in PanelHostItems :
          HostAddKeymapItem(1, item) /\ UNCHANGED <<alg_vars, call_vars, reload_vars, addon_vars, panel_vars>>
    \/ SelectInputLayout("QWERTZ") /\ UNCHANGED <<alg_vars, call_vars, reload_vars, addon_vars, panel_vars>>
    \/ ApplyOperator /\ UNCHANGED <<alg_vars, call_vars, reload_vars, addon_vars, panel_vars>>
    \/ RevertOperator /\ UNCHANGED <<alg_vars, call_vars, reload_vars, addon_vars, panel_vars>>
    \/ ToggleReapplyOnKeymapsPanel /\ UNCHANGED <<alg_vars, call_vars, reload_vars, addon_vars>>
    \/ draw_in_keymap_prefs /\ UNCHANGED <<alg_vars, call_vars, reload_vars, addon_vars>>
    \/ reapply_from_keymap_prefs /\ UNCHANGED <<alg_vars, call_vars, reload_vars, addon_vars>>
    \/ PanelLoad /\ UNCHANGED <<alg_vars, call_vars, addon_vars>>

SpecPanel == InitPanel /\ [][NextPanel]_vars

\* Claims on the reapply from the keymap panel (checked under SpecPanel)

\* a timer of the panel has run in the step
PanelCallbackStep ==
    panel_timers' = panel_timers - 1 /\ last'.op \in {"pass", "timer"}

\* C39: reapply requests from the keymap panel are conflated: at any time at
\* most one keymap-panel reapply timer is pending, however many draw calls
\* detect pending bindings, and once that timer's callback has run the
\* request flag is cleared, so that a later draw which detects pending
\* bindings schedules a new pass.
C39_PanelRequestsConflated ==
    [][/\ panel_timers' <= 1
       /\ PanelCallbackStep => ~keymap_prefs_reapply_requested'
       /\ (/\ last'.op = "draw"
           /\ is_emulation_active /\ pending_keymaps_to_emulate # <<>>
           /\ reapply_on_keymaps_panel /\ ~keymap_prefs_reapply_requested)
          => (panel_timers' = 1 /\ keymap_prefs_reapply_requested')]_vars

\* C39 witness: a timer of the panel has run a pass, the host has added a
\* binding since, and a draw of the panel has registered the next timer.
C39_Witness ==
    /\ panel_ran
    /\ last.op = "draw"
    /\ panel_timers = 1 /\ keymap_prefs_reapply_requested
    /\ is_emulation_active /\ pending_keymaps_to_emulate # <<>>
    /\ \E i \in DOMAIN user_keymaps[1].keymap_items :
          user_keymaps[1].keymap_items[i].g_applied > 0

============================================================================
